---- MODULE Spec2Model ----
(***************************************************************************)
(* Model of the LLM-response pipeline of the coffee price-list parser:     *)
(*   - the SSE accumulation loop of analyze_text_streaming /               *)
(*     analyze_pdf_streaming,                                              *)
(*   - extract_first_json_object (the bracket-depth scanner), one loop     *)
(*     iteration per step,                                                 *)
(*   - _process_response_content of the three analyzers: json.loads, then  *)
(*     clean_results (and the PDF analyzer's page filter),                 *)
(*   - csv_merger.process_json_file on a saved result,                     *)
(* and of the operations around it, each with a specification of its own:  *)
(*   - SQLQueryTool.run_query (SpecSql),                                   *)
(*   - update_latest_data (SpecDb) and get_latest_data's cache (SpecCache),*)
(*   - DeepSeekReActAgent.solve (SpecAgent),                               *)
(*   - split_text_by_coffee_beans (SpecSplit),                             *)
(*   - merge_json_to_csv (SpecMerge),                                      *)
(*   - create_chunked_pdfs (SpecChunk; its pages and text positions are    *)
(*     counted from 0 as in the code).                                     *)
(* Texts are sequences of one-character strings.  Positions are 1-based    *)
(* (Python index p is position p+1); "not found" (-1 in Python) is 0.      *)
(***************************************************************************)
EXTENDS Integers, Sequences, FiniteSets, TLC

\* ------------------------------------------------------------------ bounds
\* Longest text handed directly to _process_response_content (non-streaming).
MaxLen == 4
\* Most lines read from response.iter_lines() in one streaming call.
MaxLines == 3

\* Deepest nesting of containers json.loads decodes; stands for the
\* interpreter's recursion limit, past which it raises RecursionError.
MaxNesting == 3
\* Most pages get_pdf_page_count reports.
MaxPages == 2
\* Most entries of the top-level list of a document given to clean_results.
MaxEntries == 2
\* Longest price_per_kg string.
MaxPriceLen == 3

\* min(start_pos + 10000, len(text)): the fallback window.
FallbackLimit == 10000

\* ---------------------------------------------------------------- alphabet
Alphabet == {"{", "}", "[", "]", "\"", "\\", " ", "\n", "a"}

Texts == UNION {[1..n -> Alphabet] : n \in 0..MaxLen}

\* Characters Python's str.split() treats as separators (those the model uses).
IsSpace(c) == c \in {" ", "\t", "\n", "\r"}

\* ------------------------------------------------------------ SSE lines
\* A line of response.iter_lines().  raw: "empty" (b""), "undecodable" (bytes
\* that are not UTF-8) or "text"; prefix: the line starts with "data: ";
\* data: what follows the prefix.  A payload is described by what json.loads
\* returns for it and, for a dict, by the shape of chunk["choices"][0]["delta"].
NoData == [json |-> "none", choices |-> "none", choice0 |-> "none",
           delta |-> "none", content |-> "none", text |-> <<>>]

Payload(j, ch, c0, d, co, t) ==
    [json |-> j, choices |-> ch, choice0 |-> c0, delta |-> d, content |-> co, text |-> t]

\* Content strings the model delivers (Scenario 5's fragment among them).
Fragments ==
    { <<"[", "{", "\"", "a", "\"", ":", "1", "}">>,
      <<"]">>,
      <<"{", "\"", "}", "\\", "\"", "\"">>,
      <<"\n", "}", " ">> }

ContentPayloads == {Payload("dict", "list", "dict", "dict", "str", t) : t \in Fragments}

\* Payloads that json.loads rejects or that carry no content.
SkippedPayloads ==
    { Payload("bad",  "none",   "none", "none",   "none",   <<>>),
      Payload("list", "none",   "none", "none",   "none",   <<>>),
      Payload("dict", "absent", "none", "none",   "none",   <<>>),
      Payload("dict", "empty",  "none", "none",   "none",   <<>>),
      Payload("dict", "list",   "dict", "absent", "none",   <<>>),
      Payload("dict", "list",   "dict", "dict",   "absent", <<>>),
      Payload("dict", "list",   "dict", "dict",   "null",   <<>>) }

\* Payloads that parse but are not chunk objects of the expected shape.
NonConformingPayloads ==
    { Payload("null", "none",     "none",    "none",    "none", <<>>),
      Payload("num",  "none",     "none",    "none",    "none", <<>>),
      Payload("dict", "notsized", "none",    "none",    "none", <<>>),
      Payload("dict", "list",     "notdict", "none",    "none", <<>>),
      Payload("dict", "list",     "dict",    "notdict", "none", <<>>),
      Payload("dict", "list",     "dict",    "dict",    "num",  <<>>) }

DonePayload == Payload("done", "none", "none", "none", "none", <<>>)

Line(r, p, d) == [raw |-> r, prefix |-> p, data |-> d]

Lines ==
    { Line("empty", FALSE, NoData),
      Line("undecodable", FALSE, NoData),
      Line("text", FALSE, NoData),
      Line("text", TRUE, DonePayload) }
    \cup {Line("text", TRUE, p) : p \in ContentPayloads \cup SkippedPayloads \cup NonConformingPayloads}

VARIABLES
    mode,           \* "stream": analyze_*_streaming; "direct": analyze_text /
                    \* analyze_pdf; "clean": a parsed document, no text
    received,       \* the lines read from response.iter_lines() so far
    full_response,  \* the accumulation buffer
    pc,             \* "stream" | "find" | "scan" | "extracted" | "failed" |
                    \* "returned" | "raised" | "clean" | "cleaned" | "merged"
    text,           \* the argument of extract_first_json_object
    start_pos, end_char, i, bracket_count, in_string, escape_next,
    path,           \* which return of extract_first_json_object was taken
    json_str,       \* the string extract_first_json_object returned
    analyzer,       \* the class whose _process_response_content runs
    result,         \* what json.loads returned
    cleaned_result, \* what clean_results returned
    returned,       \* what _process_response_content returned
    pdf_page_count, \* what get_pdf_page_count returned
    outcome,        \* "none" | "no_json" | "json_error" | "exception" | "parsed"
    beans_data,     \* what csv_merger.process_json_file returned
    sql_query,             \* the query the last run_query call was given
    sql_response,          \* what the last run_query call returned (error "none": no call yet)
    sql_executed,          \* the statements handed to the database, oldest first
    latest_data,           \* the latest_data table: provider -> <<data_year, data_month>>, <<>> without a row
    update_calls,          \* the update_latest_data calls made, oldest first
    clock,                 \* what datetime.now() returns, in ticks
    latest_data_cache,     \* _latest_data_cache: provider -> the cached row, <<>> for None
    cache_expiration,      \* _cache_expiration: provider -> <<time>>, <<>> without an entry
    last_get,              \* the last get_latest_data_for_provider call and what it returned
    last_read,             \* provider -> the last call that queried the database for it, <<>> if none
    beans_by_code,         \* the dict of merge_json_to_csv: pairs of a code and its merged record
    processed,             \* every record process_json_file has returned so far, in order
    files_done,            \* the files of the glob already processed
    csv_rows,              \* the rows written to the CSV file
    merge_pc,              \* "idle" | "files": in the file loop | "written" | "returned": nothing to write
    page_texts,            \* the text of every page of the PDF, each ended by a line break
    max_pages_per_chunk,   \* the argument of create_chunked_pdfs
    output_pdfs,           \* the files written: section, chunk number and the page indices (0-based) added
    chunk_pc,              \* "idle" | "start": before create_chunked_pdfs | "done"
    bean_text,             \* the text given to split_text_by_coffee_beans
    max_beans,             \* its max_beans
    chunks,                \* the list it returned
    split_pc,              \* "idle" | "call" | "returned"
    agent_pc,              \* "idle" | "loop": solve waits for the model | "done": solve returned
    sql_tool_ok,           \* self.sql_tool is not None
    conversation_history,  \* the messages, by role and kind
    step,                  \* the model calls made by the running solve
    max_steps,             \* the max_steps of the running solve
    answer,                \* what solve returned
    responses              \* the model responses of the running solve, oldest first

vars == <<mode, received, full_response, pc, text, start_pos, end_char, i,
          bracket_count, in_string, escape_next, path, json_str, analyzer,
          result, cleaned_result, returned, pdf_page_count, outcome, beans_data,
          sql_query, sql_response, sql_executed, latest_data, update_calls,
          clock, latest_data_cache, cache_expiration, last_get, last_read,
          beans_by_code, processed, files_done, csv_rows, merge_pc,
          page_texts, max_pages_per_chunk, output_pdfs, chunk_pc, bean_text,
          max_beans, chunks, split_pc, agent_pc, sql_tool_ok,
          conversation_history, step, max_steps, answer, responses>>

procVars == <<analyzer, result, cleaned_result, returned, pdf_page_count, outcome,
              beans_data>>

scanVars == <<start_pos, end_char, i, bracket_count, in_string, escape_next, path, json_str>>

\* qa-agent/sql_query_tool.py: SQLQueryTool.run_query
sqlVars == <<sql_query, sql_response, sql_executed>>

IdleSql ==
    /\ sql_query = [t |-> "null", s |-> <<>>, n |-> 0, items |-> <<>>, d |-> <<>>]
    /\ sql_response = [success |-> FALSE, error |-> "none"]
    /\ sql_executed = <<>>

\* sqlite_populator.py: update_latest_data
dbVars == <<latest_data, update_calls>>

IdleDb ==
    /\ latest_data = <<>>
    /\ update_calls = <<>>

\* coffee_service.py: CoffeeQueryService.get_latest_data_for_provider
cacheVars == <<clock, latest_data_cache, cache_expiration, last_get, last_read>>

IdleCache ==
    /\ clock = 0
    /\ latest_data_cache = <<>>
    /\ cache_expiration = <<>>
    /\ last_get = <<>>
    /\ last_read = <<>>

\* csv_merger.py: merge_json_to_csv
mergeVars == <<beans_by_code, processed, files_done, csv_rows, merge_pc>>

IdleMerge ==
    /\ beans_by_code = <<>>
    /\ processed = <<>>
    /\ files_done = 0
    /\ csv_rows = <<>>
    /\ merge_pc = "idle"

\* pdf_chunk.py: create_chunked_pdfs
chunkVars == <<page_texts, max_pages_per_chunk, output_pdfs, chunk_pc>>

IdleChunk ==
    /\ page_texts = <<>>
    /\ max_pages_per_chunk = 0
    /\ output_pdfs = <<>>
    /\ chunk_pc = "idle"

\* JZ_parser/pdf_extractor.py: split_text_by_coffee_beans
splitVars == <<bean_text, max_beans, chunks, split_pc>>

IdleSplit ==
    /\ bean_text = <<>>
    /\ max_beans = 0
    /\ chunks = <<>>
    /\ split_pc = "idle"

\* qa-agent/reactAgent.py: DeepSeekReActAgent.solve
agentVars == <<agent_pc, sql_tool_ok, conversation_history, step, max_steps,
               answer, responses>>

IdleAgent ==
    /\ agent_pc = "idle"
    /\ sql_tool_ok = FALSE
    /\ conversation_history = <<>>
    /\ step = 0
    /\ max_steps = 0
    /\ answer = <<"none">>
    /\ responses = <<>>

\* The variables of the operations modelled apart from the parsing pipeline.
extVars == <<sqlVars, dbVars, cacheVars, mergeVars, chunkVars, splitVars,
             agentVars>>

IdleExt ==
    /\ IdleSql
    /\ IdleDb
    /\ IdleCache
    /\ IdleMerge
    /\ IdleChunk
    /\ IdleSplit
    /\ IdleAgent

\* The variables of the parsing pipeline; IdlePipeline: it is not run.
pipelineVars == <<mode, received, full_response, pc, text, scanVars, procVars>>

\* What the operations of one group leave alone.
exceptSqlVars == <<pipelineVars, dbVars, cacheVars, mergeVars, chunkVars,
                    splitVars, agentVars>>
exceptDbVars == <<pipelineVars, sqlVars, cacheVars, mergeVars, chunkVars,
                   splitVars, agentVars>>
exceptCacheVars == <<pipelineVars, sqlVars, dbVars, mergeVars, chunkVars,
                      splitVars, agentVars>>
exceptMergeVars == <<pipelineVars, sqlVars, dbVars, cacheVars, chunkVars,
                      splitVars, agentVars>>
exceptChunkVars == <<pipelineVars, sqlVars, dbVars, cacheVars, mergeVars,
                      splitVars, agentVars>>
exceptSplitVars == <<pipelineVars, sqlVars, dbVars, cacheVars, mergeVars,
                      chunkVars, agentVars>>
exceptAgentVars == <<pipelineVars, sqlVars, dbVars, cacheVars, mergeVars,
                      chunkVars, splitVars>>

IdlePipeline ==
    /\ mode = "none"
    /\ received = <<>>
    /\ full_response = <<>>
    /\ pc = "none"
    /\ text = <<>>
    /\ start_pos = 0
    /\ end_char = ""
    /\ i = 0
    /\ bracket_count = 0
    /\ in_string = FALSE
    /\ escape_next = FALSE
    /\ path = "none"
    /\ json_str = <<>>
    /\ analyzer = "none"
    /\ result = [t |-> "null", s |-> <<>>, n |-> 0, items |-> <<>>, d |-> <<>>]
    /\ cleaned_result = [t |-> "list", s |-> <<>>, n |-> 0, items |-> <<>>, d |-> <<>>]
    /\ returned = [t |-> "null", s |-> <<>>, n |-> 0, items |-> <<>>, d |-> <<>>]
    /\ pdf_page_count = 0
    /\ outcome = "none"
    /\ beans_data = <<>>

\* Every group of variables is idle but those named in S.
IdleBut(S) ==
    /\ IdlePipeline
    /\ "sql" \in S \/ IdleSql
    /\ "db" \in S \/ IdleDb
    /\ "cache" \in S \/ IdleCache
    /\ "merge" \in S \/ IdleMerge
    /\ "chunk" \in S \/ IdleChunk
    /\ "split" \in S \/ IdleSplit
    /\ "agent" \in S \/ IdleAgent

\* ------------------------------------------------------ the streaming loop
\* What the try block of the loop body does with a parsed payload:
\* "skip" (nothing appended), "append", or "raise" (an exception other than
\* json.JSONDecodeError, caught by the handler's outer except: return []).
ChunkOutcome(d) ==
    IF d.json = "bad" THEN "skip"                          \* JSONDecodeError: continue
    ELSE IF d.json \in {"null", "num"} THEN "raise"        \* "choices" in chunk: TypeError
    ELSE IF d.json = "list" THEN "skip"                    \* "choices" in chunk is False
    ELSE IF d.choices = "absent" THEN "skip"
    ELSE IF d.choices = "notsized" THEN "raise"            \* len(chunk["choices"]): TypeError
    ELSE IF d.choices = "empty" THEN "skip"
    ELSE IF d.choice0 = "notdict" THEN "raise"             \* .get: AttributeError
    ELSE IF d.delta = "absent" THEN "skip"                 \* delta = {}
    ELSE IF d.delta = "notdict" THEN "raise"               \* delta.get: AttributeError
    ELSE IF d.content \in {"absent", "null"} THEN "skip"   \* content falsy
    ELSE IF d.content = "num" THEN "raise"                 \* str += int: TypeError
    ELSE IF d.text = <<>> THEN "skip"                      \* content == ""
    ELSE "append"

\* Mutant: `full_response = content` in place of `+=`.
Accumulate_Overwrite(buf, content) == content

\* full_response += content
Accumulate(buf, content) == buf \o content

\* data == "[DONE]": break
IsDone(line) == line.data.json = "done"

\* One iteration of `for line in response.iter_lines()`.
ReceiveLine(line) ==
    /\ pc = "stream"
    /\ Len(received) < MaxLines
    /\ received' = Append(received, line)
    /\ IF line.raw = "empty" THEN
           /\ UNCHANGED <<full_response, pc, text>>
       ELSE IF line.raw = "undecodable" THEN               \* line.decode('utf-8') raises
           /\ pc' = "failed"
           /\ UNCHANGED <<full_response, text>>
       ELSE IF ~line.prefix THEN
           /\ UNCHANGED <<full_response, pc, text>>
       ELSE IF IsDone(line) THEN                           \* break, then process
           /\ pc' = "find"
           /\ text' = full_response
           /\ UNCHANGED full_response
       ELSE IF ChunkOutcome(line.data) = "raise" THEN      \* except Exception: return []
           /\ pc' = "failed"
           /\ UNCHANGED <<full_response, text>>
       ELSE IF ChunkOutcome(line.data) = "append" THEN
           /\ full_response' = Accumulate(full_response, line.data.text)
           /\ UNCHANGED <<pc, text>>
       ELSE
           /\ UNCHANGED <<full_response, pc, text>>
    /\ UNCHANGED <<mode, scanVars>>
    /\ UNCHANGED procVars
    /\ UNCHANGED extVars

\* The iterator is exhausted without a [DONE] line.
StreamExhausted ==
    /\ pc = "stream"
    /\ pc' = "find"
    /\ text' = full_response
    /\ UNCHANGED <<mode, received, full_response, scanVars>>
    /\ UNCHANGED procVars
    /\ UNCHANGED extVars

\* --------------------------------------------- extract_first_json_object
\* str.find(c): the first position of c, 0 when absent.
Find(s, c) ==
    IF \E k \in 1..Len(s) : s[k] = c
    THEN CHOOSE k \in 1..Len(s) : s[k] = c /\ \A m \in 1..(k - 1) : s[m] # c
    ELSE 0

\* Mutant: `or` in place of `and` in the not-found test.
StartOf_EitherMissing(s) ==
    LET start_brace == Find(s, "{")
        start_bracket == Find(s, "[")
    IN  IF start_brace = 0 \/ start_bracket = 0 THEN [start |-> 0, closer |-> ""]
        ELSE IF start_brace < start_bracket THEN [start |-> start_brace, closer |-> "}"]
        ELSE [start |-> start_bracket, closer |-> "]"]

\* Mutant: `>` in place of `<`, the later bracket chosen.
StartOf_Later(s) ==
    LET start_brace == Find(s, "{")
        start_bracket == Find(s, "[")
    IN  IF start_brace = 0 /\ start_bracket = 0 THEN [start |-> 0, closer |-> ""]
        ELSE IF start_brace = 0 THEN [start |-> start_bracket, closer |-> "]"]
        ELSE IF start_bracket = 0 THEN [start |-> start_brace, closer |-> "}"]
        ELSE IF start_brace > start_bracket THEN [start |-> start_brace, closer |-> "}"]
        ELSE [start |-> start_bracket, closer |-> "]"]

\* The start position and the expected closer; start 0: neither bracket occurs.
StartOf(s) ==
    LET start_brace == Find(s, "{")
        start_bracket == Find(s, "[")
    IN  IF start_brace = 0 /\ start_bracket = 0 THEN [start |-> 0, closer |-> ""]
        ELSE IF start_brace = 0 THEN [start |-> start_bracket, closer |-> "]"]
        ELSE IF start_bracket = 0 THEN [start |-> start_brace, closer |-> "}"]
        ELSE IF start_brace < start_bracket THEN [start |-> start_brace, closer |-> "}"]
        ELSE [start |-> start_bracket, closer |-> "]"]

\* json_str.replace('\n', '').replace('\r', '')
RemoveLineBreaks(s) == SelectSeq(s, LAMBDA c : c \notin {"\n", "\r"})

\* str.split(): the maximal runs of non-whitespace characters, in order.
RECURSIVE SplitFrom(_, _, _)
SplitFrom(s, k, word) ==
    IF k > Len(s) THEN (IF word = <<>> THEN <<>> ELSE <<word>>)
    ELSE IF IsSpace(s[k]) THEN
        (IF word = <<>> THEN SplitFrom(s, k + 1, <<>>)
         ELSE <<word>> \o SplitFrom(s, k + 1, <<>>))
    ELSE SplitFrom(s, k + 1, Append(word, s[k]))

Split(s) == SplitFrom(s, 1, <<>>)

\* ' '.join(words)
RECURSIVE Join(_)
Join(words) ==
    IF words = <<>> THEN <<>>
    ELSE IF Len(words) = 1 THEN words[1]
    ELSE words[1] \o <<" ">> \o Join(Tail(words))

\* Mutant: the two replace() calls left out.
CleanJson_SplitOnly(s) == Join(Split(s))

\* The cleaning both return paths apply.
CleanJson(s) == Join(Split(RemoveLineBreaks(s)))

Min(a, b) == IF a < b THEN a ELSE b

\* Mutant: text[start_pos:i], the closer left out.
BalancedSlice_Exclusive(s, start, k) == SubSeq(s, start, k - 1)

\* text[start_pos:i+1]: from the start through the closer at k.
BalancedSlice(s, start, k) == SubSeq(s, start, k)

\* Mutant: text[:end_pos], the prose before the bracket kept.
FallbackSlice_FromZero(s, start) == SubSeq(s, 1, Min(start - 1 + FallbackLimit, Len(s)))

\* text[start_pos:min(start_pos + 10000, len(text))]
FallbackSlice(s, start) == SubSeq(s, start, Min(start - 1 + FallbackLimit, Len(s)))

\* Mutant: either opener counts, whatever the expected closer.
Opens_AnyKind(endc, char) == char = "[" \/ char = "{"

Opens(endc, char) == (endc = "]" /\ char = "[") \/ (endc = "}" /\ char = "{")

Closes(endc, char) == (endc = "]" /\ char = "]") \/ (endc = "}" /\ char = "}")

\* Mutant: the `if in_string: continue` test left out.
ScanChar_NoStringSkip(count, instr, esc, endc, char) ==
    IF esc THEN [count |-> count, instr |-> instr, esc |-> FALSE, found |-> FALSE]
    ELSE IF char = "\\" THEN [count |-> count, instr |-> instr, esc |-> TRUE, found |-> FALSE]
    ELSE IF char = "\"" THEN [count |-> count, instr |-> ~instr, esc |-> esc, found |-> FALSE]
    ELSE IF Opens(endc, char) THEN [count |-> count + 1, instr |-> instr, esc |-> esc, found |-> FALSE]
    ELSE IF Closes(endc, char) THEN
        [count |-> count - 1, instr |-> instr, esc |-> esc, found |-> (count - 1 = 0)]
    ELSE [count |-> count, instr |-> instr, esc |-> esc, found |-> FALSE]

\* Mutant: the test for 0 made before the decrement.
ScanChar_TestBeforeDecrement(count, instr, esc, endc, char) ==
    IF esc THEN [count |-> count, instr |-> instr, esc |-> FALSE, found |-> FALSE]
    ELSE IF char = "\\" THEN [count |-> count, instr |-> instr, esc |-> TRUE, found |-> FALSE]
    ELSE IF char = "\"" THEN [count |-> count, instr |-> ~instr, esc |-> esc, found |-> FALSE]
    ELSE IF instr THEN [count |-> count, instr |-> instr, esc |-> esc, found |-> FALSE]
    ELSE IF Opens(endc, char) THEN [count |-> count + 1, instr |-> instr, esc |-> esc, found |-> FALSE]
    ELSE IF Closes(endc, char) THEN
        [count |-> count - 1, instr |-> instr, esc |-> esc, found |-> (count = 0)]
    ELSE [count |-> count, instr |-> instr, esc |-> esc, found |-> FALSE]

\* One iteration of the scan loop on the flags: the new flags and whether the
\* matching closer was found (the loop returns).
ScanChar(count, instr, esc, endc, char) ==
    IF esc THEN [count |-> count, instr |-> instr, esc |-> FALSE, found |-> FALSE]
    ELSE IF char = "\\" THEN [count |-> count, instr |-> instr, esc |-> TRUE, found |-> FALSE]
    ELSE IF char = "\"" THEN [count |-> count, instr |-> ~instr, esc |-> esc, found |-> FALSE]
    ELSE IF instr THEN [count |-> count, instr |-> instr, esc |-> esc, found |-> FALSE]
    ELSE IF Opens(endc, char) THEN [count |-> count + 1, instr |-> instr, esc |-> esc, found |-> FALSE]
    ELSE IF Closes(endc, char) THEN
        [count |-> count - 1, instr |-> instr, esc |-> esc, found |-> (count - 1 = 0)]
    ELSE [count |-> count, instr |-> instr, esc |-> esc, found |-> FALSE]

\* Lines 245-269: locate the start, seed the flags; return "" without a bracket.
FindStart ==
    /\ pc = "find"
    /\ LET st == StartOf(text) IN
       /\ start_pos' = st.start
       /\ end_char' = st.closer
       /\ IF st.start = 0
          THEN /\ pc' = "extracted"
               /\ path' = "empty"
               /\ json_str' = <<>>
               /\ i' = 0
          ELSE /\ pc' = "scan"
               /\ i' = st.start
               /\ UNCHANGED <<path, json_str>>
       /\ bracket_count' = 0
       /\ in_string' = FALSE
       /\ escape_next' = FALSE
    /\ UNCHANGED <<mode, received, full_response, text>>
    /\ UNCHANGED procVars
    /\ UNCHANGED extVars

\* One iteration of `for i in range(start_pos, len(text))`.
ScanStep ==
    /\ pc = "scan"
    /\ i <= Len(text)
    /\ LET r == ScanChar(bracket_count, in_string, escape_next, end_char, text[i]) IN
       /\ bracket_count' = r.count
       /\ in_string' = r.instr
       /\ escape_next' = r.esc
       /\ IF r.found
          THEN /\ json_str' = CleanJson(BalancedSlice(text, start_pos, i))
               /\ path' = "balanced"
               /\ pc' = "extracted"
               /\ UNCHANGED i
          ELSE /\ i' = i + 1
               /\ UNCHANGED <<json_str, path, pc>>
    /\ UNCHANGED <<mode, received, full_response, text, start_pos, end_char>>
    /\ UNCHANGED procVars
    /\ UNCHANGED extVars

\* The loop ended without a match: lines 305-313.
ScanExhausted ==
    /\ pc = "scan"
    /\ i > Len(text)
    /\ json_str' = CleanJson(FallbackSlice(text, start_pos))
    /\ path' = "fallback"
    /\ pc' = "extracted"
    /\ UNCHANGED <<mode, received, full_response, text, start_pos, end_char, i,
                   bracket_count, in_string, escape_next>>
    /\ UNCHANGED procVars
    /\ UNCHANGED extVars

\* ------------------------------------------------------------ JSON values
\* A value json.loads returns.  Every value is a record of the same shape:
\*   t      "null" | "bool" | "int" | "float" | "str" | "list" | "dict"
\*   s      the characters of a str
\*   n      a bool as 0/1, an int, or a float multiplied by FloatScale
\*   items  the elements of a list
\*   d      the members of a dict, in insertion order, as [k, v] pairs whose
\*          key is a sequence of characters
JV(t, s, n, items, d) == [t |-> t, s |-> s, n |-> n, items |-> items, d |-> d]

\* Floats are kept as integers in units of 10^-4.
FloatScale == 100 * 100

JNull == JV("null", <<>>, 0, <<>>, <<>>)
JBool(b) == JV("bool", <<>>, IF b THEN 1 ELSE 0, <<>>, <<>>)
JInt(n) == JV("int", <<>>, n, <<>>, <<>>)
JFloat(m) == JV("float", <<>>, m, <<>>, <<>>)
JStr(s) == JV("str", s, 0, <<>>, <<>>)
JList(items) == JV("list", <<>>, 0, items, <<>>)
JDict(pairs) == JV("dict", <<>>, 0, <<>>, pairs)

Pair(k, v) == [k |-> k, v |-> v]

\* The keys clean_results reads and writes.
K_page == <<"p", "a", "g", "e">>
K_coffee_beans == <<"c", "o", "f", "f", "e", "e", "_", "b", "e", "a", "n", "s">>
K_code == <<"c", "o", "d", "e">>
K_name == <<"n", "a", "m", "e">>
K_country == <<"c", "o", "u", "n", "t", "r", "y">>
K_flavor_profile == <<"f", "l", "a", "v", "o", "r", "_", "p", "r", "o", "f", "i", "l", "e">>
K_price_per_kg == <<"p", "r", "i", "c", "e", "_", "p", "e", "r", "_", "k", "g">>
K_price_per_pkg == <<"p", "r", "i", "c", "e", "_", "p", "e", "r", "_", "p", "k", "g">>
K_origin == <<"o", "r", "i", "g", "i", "n">>
K_plot == <<"p", "l", "o", "t">>
K_estate == <<"e", "s", "t", "a", "t", "e">>
K_grade == <<"g", "r", "a", "d", "e">>
K_humidity == <<"h", "u", "m", "i", "d", "i", "t", "y">>
K_altitude == <<"a", "l", "t", "i", "t", "u", "d", "e">>
K_density == <<"d", "e", "n", "s", "i", "t", "y">>
K_processing_method == <<"p", "r", "o", "c", "e", "s", "s", "i", "n", "g", "_", "m", "e", "t", "h", "o", "d">>
K_harvest_season == <<"h", "a", "r", "v", "e", "s", "t", "_", "s", "e", "a", "s", "o", "n">>
K_variety == <<"v", "a", "r", "i", "e", "t", "y">>
K_sold_out == <<"s", "o", "l", "d", "_", "o", "u", "t">>

\* Python's isinstance: bool is a subclass of int.
IsInt(v) == v.t \in {"int", "bool"}
IsNumber(v) == v.t \in {"int", "bool", "float"}

\* dict.get(key, default); of two members with one key json.loads keeps the last.
DictGet(v, key, default) ==
    LET hits == {j \in 1..Len(v.d) : v.d[j].k = key} IN
    IF hits = {} THEN default
    ELSE v.d[CHOOSE j \in hits : \A m \in hits : m <= j].v

\* bool(value)
Truthy(v) ==
    CASE v.t = "null" -> FALSE
      [] v.t \in {"bool", "int", "float"} -> v.n # 0
      [] v.t = "str" -> v.s # <<>>
      [] v.t = "list" -> v.items # <<>>
      [] v.t = "dict" -> v.d # <<>>
\* ------------------------------------------------- Python's str() and float()
DigitChars == <<"0", "1", "2", "3", "4", "5", "6", "7", "8", "9">>

IsDigit(c) == \E k \in 1..Len(DigitChars) : DigitChars[k] = c

DigitVal(c) == (CHOOSE k \in 1..Len(DigitChars) : DigitChars[k] = c) - 1

RECURSIVE NatStr(_)
NatStr(n) ==
    IF n < 10 THEN <<DigitChars[n + 1]>>
    ELSE NatStr(n \div 10) \o <<DigitChars[(n % 10) + 1]>>

\* str(n) for an int
IntStr(n) == IF n < 0 THEN <<"-">> \o NatStr(-n) ELSE NatStr(n)

\* The digits of a fraction f (0 <= f < FloatScale) in `width` places, without
\* the trailing zeros.
RECURSIVE FracStr(_, _)
FracStr(f, width) ==
    IF f = 0 \/ width = 0 THEN <<>>
    ELSE LET unit == width \div 10 IN
         <<DigitChars[(f \div unit) + 1]>> \o FracStr(f % unit, unit)

\* str(x) for a float in the range repr() prints positionally (1e-4 <= |x| < 1e16)
FloatStr(m) ==
    LET a == IF m < 0 THEN -m ELSE m
        frac == FracStr(a % FloatScale, FloatScale)
    IN (IF m < 0 THEN <<"-">> ELSE <<>>)
       \o NatStr(a \div FloatScale) \o <<".">>
       \o (IF frac = <<>> THEN <<"0">> ELSE frac)

RECURSIVE PyRepr(_)
RECURSIVE JoinReprs(_)
RECURSIVE JoinMembers(_)

\* ", ".join(repr(x) for x in items)
JoinReprs(items) ==
    IF items = <<>> THEN <<>>
    ELSE IF Len(items) = 1 THEN PyRepr(items[1])
    ELSE PyRepr(items[1]) \o <<",", " ">> \o JoinReprs(Tail(items))

JoinMembers(pairs) ==
    IF pairs = <<>> THEN <<>>
    ELSE LET one == <<"'">> \o pairs[1].k \o <<"'", ":", " ">> \o PyRepr(pairs[1].v) IN
         IF Len(pairs) = 1 THEN one
         ELSE one \o <<",", " ">> \o JoinMembers(Tail(pairs))

\* repr(value); a str is quoted with ' (it holds no quote, backslash or
\* control character wherever the model takes the repr of one).
PyRepr(v) ==
    CASE v.t = "null" -> <<"N", "o", "n", "e">>
      [] v.t = "bool" -> IF v.n = 1 THEN <<"T", "r", "u", "e">>
                                    ELSE <<"F", "a", "l", "s", "e">>
      [] v.t = "int" -> IntStr(v.n)
      [] v.t = "float" -> FloatStr(v.n)
      [] v.t = "str" -> <<"'">> \o v.s \o <<"'">>
      [] v.t = "list" -> <<"[">> \o JoinReprs(v.items) \o <<"]">>
      [] v.t = "dict" -> <<"{">> \o JoinMembers(v.d) \o <<"}">>

\* str(value)
PyStr(v) == IF v.t = "str" THEN v.s ELSE PyRepr(v)

\* re.search(r'[\d.]+', s): the first maximal run of digits and dots, as
\* [found, run].
IsRunChar(c) == IsDigit(c) \/ c = "."

SearchRun(s) ==
    IF \A k \in 1..Len(s) : ~IsRunChar(s[k]) THEN [found |-> FALSE, run |-> <<>>]
    ELSE LET a == CHOOSE k \in 1..Len(s) :
                      IsRunChar(s[k]) /\ \A m \in 1..(k - 1) : ~IsRunChar(s[m])
             b == CHOOSE k \in a..Len(s) :
                      /\ \A m \in a..k : IsRunChar(s[m])
                      /\ (k = Len(s) \/ ~IsRunChar(s[k + 1]))
         IN [found |-> TRUE, run |-> SubSeq(s, a, b)]

RECURSIVE DigitsVal(_)
DigitsVal(ds) ==
    IF ds = <<>> THEN 0
    ELSE DigitsVal(SubSeq(ds, 1, Len(ds) - 1)) * 10 + DigitVal(ds[Len(ds)])

RECURSIVE Pow10(_)
Pow10(k) == IF k = 0 THEN 1 ELSE 10 * Pow10(k - 1)

\* The value of the fraction digits fs in units of 10^-4 (the model's texts
\* hold no fraction of more than four digits).
FracVal(fs) ==
    LET four == IF Len(fs) > 4 THEN SubSeq(fs, 1, 4) ELSE fs IN
    DigitsVal(four) * Pow10(4 - Len(four))

\* float(run) for a run of digits and dots: [ok, value]; ok is FALSE where
\* Python raises ValueError (no digit, or more than one dot).
FloatOf(run) ==
    LET dots == {k \in 1..Len(run) : run[k] = "."} IN
    IF Cardinality(dots) > 1 \/ Len(run) = Cardinality(dots)
    THEN [ok |-> FALSE, value |-> 0]
    ELSE IF dots = {} THEN [ok |-> TRUE, value |-> DigitsVal(run) * FloatScale]
    ELSE LET p == CHOOSE k \in dots : TRUE IN
         [ok |-> TRUE,
          value |-> DigitsVal(SubSeq(run, 1, p - 1)) * FloatScale
                    + FracVal(SubSeq(run, p + 1, Len(run)))]

\* ------------------------------------------------------------ clean_results
\* The implementations of clean_results: "text" is
\* JZ_parser/text_llm_parser.py, "pdf" is llm_parser.py.
Impls == {"text", "pdf"}

\* Mutant: every implementation writes the PDF analyzer's keys.
DeclaredFields_PdfOnly(impl) ==
    <<K_code, K_name, K_country, K_flavor_profile,
      K_price_per_kg, K_price_per_pkg, K_origin, K_grade,
      K_humidity, K_altitude, K_density, K_processing_method,
      K_harvest_season, K_variety>>

\* The keys of the cleaned_bean literal, in its order.
DeclaredFields(impl) ==
    IF impl = "text"
    THEN <<K_code, K_name, K_country, K_flavor_profile,
           K_price_per_kg, K_price_per_pkg, K_origin, K_plot,
           K_estate, K_grade, K_humidity, K_altitude, K_density,
           K_processing_method, K_harvest_season, K_variety,
           K_sold_out>>
    ELSE <<K_code, K_name, K_country, K_flavor_profile,
           K_price_per_kg, K_price_per_pkg, K_origin, K_grade,
           K_humidity, K_altitude, K_density, K_processing_method,
           K_harvest_season, K_variety>>

\* Mutant: None and "None" become ''.
CleanString_NoneEmpty(value) ==
    IF value.t = "null" \/ value = JStr(<<"N", "o", "n", "e">>)
    THEN JStr(<<>>) ELSE JStr(PyStr(value))

\* str(bean.get(key, ""))
CleanString(value) == JStr(PyStr(value))

\* The price_per_kg branch: a str is searched for a run of digits and dots,
\* which float() converts (ValueError: None); any other value that is neither
\* a number nor None becomes None.
CleanPrice(price) ==
    IF price.t = "str" THEN
        LET m == SearchRun(price.s) IN
        IF m.found
        THEN (IF FloatOf(m.run).ok THEN JFloat(FloatOf(m.run).value) ELSE JNull)
        ELSE JNull
    ELSE IF ~IsNumber(price) /\ price.t # "null" THEN JNull
    ELSE price

\* bool(bean.get("sold_out", False))
CleanSoldOut(value) == JBool(Truthy(value))

\* The value the cleaned_bean literal gives to one key.
CleanField(bean, key) ==
    IF key = K_price_per_kg THEN CleanPrice(DictGet(bean, key, JNull))
    ELSE IF key = K_price_per_pkg THEN DictGet(bean, key, JNull)
    ELSE IF key = K_sold_out THEN CleanSoldOut(DictGet(bean, key, JBool(FALSE)))
    ELSE CleanString(DictGet(bean, key, JStr(<<>>)))

CleanBean(bean, impl) ==
    LET keys == DeclaredFields(impl) IN
    JDict([j \in 1..Len(keys) |-> Pair(keys[j], CleanField(bean, keys[j]))])

\* Mutant: a bean without a name is dropped as well.
KeepBean_Named(bean) ==
    bean.t = "dict" /\ Truthy(DictGet(bean, K_name, JStr(<<>>)))

\* `if not isinstance(bean, dict): continue`
KeepBean(bean) == bean.t = "dict"

\* The inner loop: `for j, bean in enumerate(coffee_beans)`.
RECURSIVE CleanBeans(_, _)
CleanBeans(coffee_beans, impl) ==
    IF coffee_beans = <<>> THEN <<>>
    ELSE IF ~KeepBean(coffee_beans[1]) THEN CleanBeans(Tail(coffee_beans), impl)
    ELSE <<CleanBean(coffee_beans[1], impl)>> \o CleanBeans(Tail(coffee_beans), impl)

\* Mutant: the page is the position, whatever the entry says.
PageNum_AlwaysPosition(page_data, idx) == JInt(idx + 1)

\* Mutant: the replacement is the 0-based index.
PageNum_ZeroBased(page_data, idx) ==
    LET page_num == DictGet(page_data, K_page, JInt(0)) IN
    IF ~IsInt(page_num) \/ page_num.n <= 0 THEN JInt(idx) ELSE page_num

\* page_num = page_data.get("page", 0), replaced by i + 1 when it is not an
\* int or is <= 0; idx is the index enumerate(results) gives the entry.
PageNum(page_data, idx) ==
    LET page_num == DictGet(page_data, K_page, JInt(0)) IN
    IF ~IsInt(page_num) \/ page_num.n <= 0 THEN JInt(idx + 1) ELSE page_num

\* coffee_beans = page_data.get("coffee_beans", []), [] when it is not a list.
BeansOf(page_data) ==
    LET coffee_beans == DictGet(page_data, K_coffee_beans, JList(<<>>)) IN
    IF coffee_beans.t # "list" THEN <<>> ELSE coffee_beans.items

Group(page_num, cleaned_beans) ==
    JDict(<<Pair(K_page, page_num), Pair(K_coffee_beans, JList(cleaned_beans))>>)

\* Mutant: the group is appended whether or not it has beans.
AppendGroup_Always(cleaned, page_num, cleaned_beans) ==
    Append(cleaned, Group(page_num, cleaned_beans))

\* `if cleaned_beans: cleaned.append({...})`
AppendGroup(cleaned, page_num, cleaned_beans) ==
    IF cleaned_beans # <<>> THEN Append(cleaned, Group(page_num, cleaned_beans))
    ELSE cleaned

\* The outer loop, `for i, page_data in enumerate(results)`, from index idx on.
RECURSIVE CleanLoop(_, _, _, _)
CleanLoop(results, idx, cleaned, impl) ==
    IF idx >= Len(results) THEN cleaned
    ELSE LET page_data == results[idx + 1] IN
         IF page_data.t # "dict" THEN CleanLoop(results, idx + 1, cleaned, impl)
         ELSE CleanLoop(results, idx + 1,
                        AppendGroup(cleaned, PageNum(page_data, idx),
                                    CleanBeans(BeansOf(page_data), impl)),
                        impl)

\* Mutant: a list with a non-mapping entry yields nothing.
clean_results_AllOrNothing(results, impl) ==
    IF results.t # "list" THEN JList(<<>>)
    ELSE IF \E k \in 1..Len(results.items) : results.items[k].t # "dict"
    THEN JList(<<>>)
    ELSE JList(CleanLoop(results.items, 0, <<>>, impl))

clean_results(results, impl) ==
    IF results.t # "list" THEN JList(<<>>)
    ELSE JList(CleanLoop(results.items, 0, <<>>, impl))

\* ------------------------------------------------ csv_merger.process_json_file
K_type == <<"t", "y", "p", "e">>

\* What extract_bean_type returns for the file's name.
BeanTypes == { <<"c", "o", "m", "m", "o", "n">>, <<"u", "n", "k", "n", "o", "w", "n">> }

\* re.search(r'(19|20)\d{2}', s): the first match, as [found, run].
SearchCentury(s) ==
    LET At(p) == /\ p + 3 <= Len(s)
                 /\ SubSeq(s, p, p + 1) \in {<<"1", "9">>, <<"2", "0">>}
                 /\ IsDigit(s[p + 2]) /\ IsDigit(s[p + 3])
    IN IF \E p \in 1..Len(s) : At(p)
       THEN LET a == CHOOSE p \in 1..Len(s) : At(p) /\ \A q \in 1..(p - 1) : ~At(q)
            IN [found |-> TRUE, run |-> SubSeq(s, a, a + 3)]
       ELSE [found |-> FALSE, run |-> <<>>]

\* re.search(r'\d{4}', s)
SearchFourDigits(s) ==
    LET At(p) == p + 3 <= Len(s) /\ \A q \in p..(p + 3) : IsDigit(s[q])
    IN IF \E p \in 1..Len(s) : At(p)
       THEN LET a == CHOOSE p \in 1..Len(s) : At(p) /\ \A q \in 1..(p - 1) : ~At(q)
            IN [found |-> TRUE, run |-> SubSeq(s, a, a + 3)]
       ELSE [found |-> FALSE, run |-> <<>>]

\* Mutant: None and "None" are converted like any other value.
process_field_value_StrOnly(field_name, value) == PyStr(value)

\* process_field_value: the characters of the str it returns.
process_field_value(field_name, value) ==
    IF value.t = "null" \/ value = JStr(<<"N", "o", "n", "e">>) \/ value = JStr(<<>>)
    THEN <<>>
    ELSE IF field_name = K_harvest_season THEN
        (IF SearchCentury(PyStr(value)).found THEN SearchCentury(PyStr(value)).run
         ELSE IF SearchFourDigits(PyStr(value)).found
              THEN SearchFourDigits(PyStr(value)).run
         ELSE <<>>)
    ELSE PyStr(value)

\* dict assignment: an existing key keeps its place, a new key goes last.
DictSet(pairs, key, value) ==
    IF \E j \in 1..Len(pairs) : pairs[j].k = key
    THEN [j \in 1..Len(pairs) |->
             IF pairs[j].k = key THEN Pair(key, value) ELSE pairs[j]]
    ELSE Append(pairs, Pair(key, value))

HasKey(pairs, key) == \E j \in 1..Len(pairs) : pairs[j].k = key

\* Mutant: no bean is skipped.
SkipBean_Never(bean) == FALSE

\* `if not bean.get('name') or bean.get('name') == "None" or ...: continue`
SkipBean(bean) ==
    \/ ~Truthy(DictGet(bean, K_name, JNull))
    \/ DictGet(bean, K_name, JNull) = JStr(<<"N", "o", "n", "e">>)

\* The record process_json_file builds for one bean of a regular file.
ProcessedBean(bean, bean_type) ==
    LET copied == [j \in 1..Len(bean.d) |->
                      Pair(bean.d[j].k,
                           JStr(process_field_value(bean.d[j].k, bean.d[j].v)))]
        typed == DictSet(copied, K_type, JStr(bean_type))
        sold == IF HasKey(typed, K_sold_out) THEN typed
                ELSE DictSet(typed, K_sold_out, JStr(<<>>))
        country == DictSet(sold, K_country,
                           DictGet(JDict(sold), K_country, JStr(<<>>)))
        season == IF HasKey(country, K_harvest_season)
                  THEN DictSet(country, K_harvest_season,
                               JStr(process_field_value(K_harvest_season,
                                        DictGet(JDict(country), K_harvest_season, JNull))))
                  ELSE country
    IN JDict(season)

RECURSIVE ProcessBeans(_, _)
ProcessBeans(beans, bean_type) ==
    IF beans = <<>> THEN <<>>
    ELSE IF SkipBean(beans[1]) THEN ProcessBeans(Tail(beans), bean_type)
    ELSE <<ProcessedBean(beans[1], bean_type)>> \o ProcessBeans(Tail(beans), bean_type)

\* The page loop of process_json_file over a saved result of clean_results.
RECURSIVE ProcessPages(_, _)
ProcessPages(data, bean_type) ==
    IF data = <<>> THEN <<>>
    ELSE (IF HasKey(data[1].d, K_coffee_beans)
          THEN ProcessBeans(DictGet(data[1], K_coffee_beans, JNull).items, bean_type)
          ELSE <<>>)
         \o ProcessPages(Tail(data), bean_type)

\* ---------------------------------------------------------------- json.loads
\* A parse result is [err, v, next]: err is "none", "decode"
\* (json.JSONDecodeError) or "recursion" (RecursionError, raised by the decoder
\* when containers nest deeper than the interpreter allows; the model scales
\* that limit to MaxNesting); next is the position after the value.
Parsed(v, next) == [err |-> "none", v |-> v, next |-> next]
Failed(e) == [err |-> e, v |-> JNull, next |-> 0]

IsJsonSpace(c) == c \in {" ", "\t", "\n", "\r"}

\* The first position from p on that holds no whitespace (Len(s) + 1 at the end).
SkipWs(s, p) ==
    CHOOSE q \in p..(Len(s) + 1) :
        /\ \A m \in p..(q - 1) : IsJsonSpace(s[m])
        /\ (q = Len(s) + 1 \/ ~IsJsonSpace(s[q]))

\* The last position of the run of digits that starts at p.
DigitsEnd(s, p) ==
    CHOOSE q \in p..Len(s) :
        /\ \A m \in p..q : IsDigit(s[m])
        /\ (q = Len(s) \/ ~IsDigit(s[q + 1]))

StartsWith(s, p, lit) ==
    p + Len(lit) - 1 <= Len(s) /\ SubSeq(s, p, p + Len(lit) - 1) = lit

\* The body of a string from p (after the opening quote) on.  Of the escapes,
\* \b and \uXXXX are left out: no text of the model holds them.
RECURSIVE ScanString(_, _, _)
ScanString(s, p, acc) ==
    IF p > Len(s) THEN Failed("decode")
    ELSE IF s[p] = "\"" THEN Parsed(JStr(acc), p + 1)
    ELSE IF s[p] = "\\" THEN
        (IF p + 1 > Len(s) THEN Failed("decode")
         ELSE IF s[p + 1] \in {"\"", "\\", "/"}
              THEN ScanString(s, p + 2, Append(acc, s[p + 1]))
         ELSE IF s[p + 1] = "n" THEN ScanString(s, p + 2, Append(acc, "\n"))
         ELSE IF s[p + 1] = "r" THEN ScanString(s, p + 2, Append(acc, "\r"))
         ELSE IF s[p + 1] = "t" THEN ScanString(s, p + 2, Append(acc, "\t"))
         ELSE IF s[p + 1] = "f" THEN ScanString(s, p + 2, Append(acc, "\f"))
         ELSE Failed("decode"))
    ELSE IF s[p] \in {"\n", "\r", "\t", "\f"} THEN Failed("decode")
    ELSE ScanString(s, p + 1, Append(acc, s[p]))

\* A number at p: -?(0|[1-9]\d*)(\.\d+)?   (no text of the model holds an
\* exponent).
ScanNumber(s, p) ==
    LET neg == s[p] = "-"
        a == IF neg THEN p + 1 ELSE p
    IN IF a > Len(s) \/ ~IsDigit(s[a]) THEN Failed("decode")
       ELSE LET b == IF s[a] = "0" THEN a ELSE DigitsEnd(s, a)
                whole == DigitsVal(SubSeq(s, a, b))
                sign == IF neg THEN -1 ELSE 1
            IN IF b + 2 <= Len(s) /\ s[b + 1] = "." /\ IsDigit(s[b + 2])
               THEN LET c == DigitsEnd(s, b + 2) IN
                    Parsed(JFloat(sign * (whole * FloatScale
                                          + FracVal(SubSeq(s, b + 2, c)))), c + 1)
               ELSE Parsed(JInt(sign * whole), b + 1)

RECURSIVE ParseValue(_, _, _)
RECURSIVE ArrayLoop(_, _, _, _)
RECURSIVE ObjectLoop(_, _, _, _)

\* The elements of an array; p is at the first character of an element.
ArrayLoop(s, p, depth, acc) ==
    LET r == ParseValue(s, p, depth) IN
    IF r.err # "none" THEN r
    ELSE LET q == SkipWs(s, r.next) IN
         IF q > Len(s) THEN Failed("decode")
         ELSE IF s[q] = "]" THEN Parsed(JList(Append(acc, r.v)), q + 1)
         ELSE IF s[q] = "," THEN ArrayLoop(s, SkipWs(s, q + 1), depth, Append(acc, r.v))
         ELSE Failed("decode")

\* The members of an object; p is where the next key's quote must be.
ObjectLoop(s, p, depth, acc) ==
    IF p > Len(s) \/ s[p] # "\"" THEN Failed("decode")
    ELSE LET key == ScanString(s, p + 1, <<>>) IN
         IF key.err # "none" THEN key
         ELSE LET q == SkipWs(s, key.next) IN
              IF q > Len(s) \/ s[q] # ":" THEN Failed("decode")
              ELSE LET r == ParseValue(s, SkipWs(s, q + 1), depth) IN
                   IF r.err # "none" THEN r
                   ELSE LET e == SkipWs(s, r.next)
                            members == DictSet(acc, key.v.s, r.v)
                        IN IF e > Len(s) THEN Failed("decode")
                           ELSE IF s[e] = "}" THEN Parsed(JDict(members), e + 1)
                           ELSE IF s[e] = ","
                                THEN ObjectLoop(s, SkipWs(s, e + 1), depth, members)
                           ELSE Failed("decode")

\* scan_once at position p, inside `depth` containers.
ParseValue(s, p, depth) ==
    IF p > Len(s) THEN Failed("decode")
    ELSE IF s[p] = "\"" THEN ScanString(s, p + 1, <<>>)
    ELSE IF s[p] \in {"{", "["} /\ depth >= MaxNesting THEN Failed("recursion")
    ELSE IF s[p] = "{" THEN
        (LET q == SkipWs(s, p + 1) IN
         IF q <= Len(s) /\ s[q] = "}" THEN Parsed(JDict(<<>>), q + 1)
         ELSE ObjectLoop(s, q, depth + 1, <<>>))
    ELSE IF s[p] = "[" THEN
        (LET q == SkipWs(s, p + 1) IN
         IF q <= Len(s) /\ s[q] = "]" THEN Parsed(JList(<<>>), q + 1)
         ELSE ArrayLoop(s, q, depth + 1, <<>>))
    ELSE IF StartsWith(s, p, <<"n", "u", "l", "l">>) THEN Parsed(JNull, p + 4)
    ELSE IF StartsWith(s, p, <<"t", "r", "u", "e">>) THEN Parsed(JBool(TRUE), p + 4)
    ELSE IF StartsWith(s, p, <<"f", "a", "l", "s", "e">>) THEN Parsed(JBool(FALSE), p + 5)
    ELSE IF IsDigit(s[p]) \/ s[p] = "-" THEN ScanNumber(s, p)
    ELSE Failed("decode")

\* json.loads(s): one value between optional whitespace, nothing after it.
json_loads(s) ==
    LET r == ParseValue(s, SkipWs(s, 1), 0) IN
    IF r.err # "none" THEN r
    ELSE IF SkipWs(s, r.next) <= Len(s) THEN Failed("decode")
    ELSE r

\* ------------------------------------------------- _process_response_content
\* The class whose method runs: "text" (CoffeeBeanTextAnalyzer), "pdf"
\* (CoffeeBeanPDFAnalyzer) or "flavor" (FlavorCategorizer, which has no
\* streaming call).
Analyzers == {"text", "pdf", "flavor"}

\* get_pdf_page_count(pdf_path): the pages of the file, 0 when it cannot be read.
PageCounts == 0..MaxPages

\* llm_parser.py: the groups whose page is an int in 1..pdf_page_count.
FilterPages(groups, count) ==
    SelectSeq(groups,
              LAMBDA g : LET page_num == DictGet(g, K_page, JInt(0)) IN
                         IsInt(page_num) /\ 1 <= page_num.n /\ page_num.n <= count)

\* What the method returns for a parsed result.
Returned(a, value, count) ==
    IF a = "text" THEN clean_results(value, "text")
    ELSE IF a = "pdf" THEN JList(FilterPages(clean_results(value, "pdf").items, count))
    ELSE IF value.t = "list" THEN value
    ELSE JList(<<>>)

\* The method after extract_first_json_object has returned json_str.
ProcessResponse(a, count) ==
    /\ pc = "extracted"
    /\ mode \in {"stream", "direct"}
    /\ a = "flavor" => mode = "direct"
    /\ analyzer' = a
    /\ IF json_str = <<>> THEN                     \* "No valid JSON data found"
           /\ count = 0
           /\ pc' = "returned"
           /\ outcome' = "no_json"
           /\ returned' = JList(<<>>)
           /\ UNCHANGED <<result, cleaned_result, pdf_page_count>>
       ELSE IF json_loads(json_str).err = "decode" THEN   \* except JSONDecodeError
           /\ count = 0
           /\ pc' = "returned"
           /\ outcome' = "json_error"
           /\ returned' = JList(<<>>)
           /\ UNCHANGED <<result, cleaned_result, pdf_page_count>>
       ELSE IF json_loads(json_str).err = "recursion" THEN \* no handler: it escapes
           /\ count = 0
           /\ pc' = "raised"
           /\ outcome' = "exception"
           /\ UNCHANGED <<result, cleaned_result, returned, pdf_page_count>>
       ELSE
           /\ a = "pdf" \/ count = 0
           /\ pc' = "returned"
           /\ outcome' = "parsed"
           /\ result' = json_loads(json_str).v
           /\ cleaned_result' = IF a = "flavor" THEN JList(<<>>)
                                ELSE clean_results(json_loads(json_str).v, a)
           /\ pdf_page_count' = count
           /\ returned' = Returned(a, json_loads(json_str).v, count)
    /\ beans_data' = beans_data
    /\ UNCHANGED <<mode, received, full_response, text, scanVars>>
    /\ UNCHANGED extVars

\* ------------------------------------------ clean_results called on a document
\* self.clean_results(result)
CallCleanResults ==
    /\ pc = "clean"
    /\ analyzer \in Impls
    /\ cleaned_result' = clean_results(result, analyzer)
    /\ pc' = "cleaned"
    /\ UNCHANGED <<mode, received, full_response, text, scanVars, analyzer,
                   result, returned, pdf_page_count, outcome, beans_data>>
    /\ UNCHANGED extVars

\* The rest of _process_response_content: the text analyzer returns the cleaned
\* result, the PDF analyzer filters it by the page count.
ReturnResult(count) ==
    /\ pc = "cleaned"
    /\ analyzer = "pdf" \/ count = 0
    /\ pdf_page_count' = count
    /\ returned' = IF analyzer = "pdf"
                   THEN JList(FilterPages(cleaned_result.items, count))
                   ELSE cleaned_result
    /\ outcome' = "parsed"
    /\ pc' = "returned"
    /\ UNCHANGED <<mode, received, full_response, text, scanVars, analyzer,
                   result, cleaned_result, beans_data>>
    /\ UNCHANGED extVars

\* csv_merger.process_json_file on the saved result (a regular file).
ProcessJsonFile(bean_type) ==
    /\ mode = "clean"
    /\ analyzer \in Impls
    /\ pc = "returned"
    /\ beans_data' = ProcessPages(returned.items, bean_type)
    /\ pc' = "merged"
    /\ UNCHANGED <<mode, received, full_response, text, scanVars, analyzer,
                   result, cleaned_result, returned, pdf_page_count, outcome>>
    /\ UNCHANGED extVars

\* ------------------------------------------------------------ specification
Init ==
    /\ mode \in {"stream", "direct"}
    /\ received = <<>>
    /\ full_response = <<>>
    /\ IF mode = "stream"
       THEN pc = "stream" /\ text = <<>>
       ELSE pc = "find" /\ text \in Texts
    /\ start_pos = 0
    /\ end_char = ""
    /\ i = 0
    /\ bracket_count = 0
    /\ in_string = FALSE
    /\ escape_next = FALSE
    /\ path = "none"
    /\ json_str = <<>>
    /\ analyzer = "none"
    /\ result = JNull
    /\ cleaned_result = JList(<<>>)
    /\ returned = JNull
    /\ pdf_page_count = 0
    /\ outcome = "none"
    /\ beans_data = <<>>
    /\ IdleExt

Next ==
    \/ \E line \in Lines : ReceiveLine(line)
    \/ StreamExhausted
    \/ FindStart
    \/ ScanStep
    \/ ScanExhausted
    \/ \E a \in Analyzers, count \in PageCounts : ProcessResponse(a, count)

Spec == Init /\ [][Next]_vars

\* --------------------------------------------------- the documents cleaned
\* Values a model may answer with in place of the requested ones.
S_None == <<"N", "o", "n", "e">>

PageValues ==
    { JInt(0), JInt(2), JBool(TRUE), JStr(<<"2">>) }

BeanA == JDict(<<Pair(K_name, JStr(<<"A">>))>>)
BeanB == JDict(<<Pair(K_name, JStr(<<"B">>)), Pair(K_code, JStr(<<"b">>))>>)

BeansValues ==
    { JStr(<<"x">>), JList(<<>>), JList(<<JInt(7)>>), JList(<<BeanA>>) }

\* An entry of the top-level list: a mapping whose page varies, a mapping
\* whose coffee_beans varies, or something that is not a mapping.
PageEntries ==
    { JDict(p \o <<Pair(K_coffee_beans, JList(<<JInt(7), BeanA, BeanB>>))>>) :
        p \in {<<>>} \cup {<<Pair(K_page, v)>> : v \in PageValues} }
    \cup { JDict(<<Pair(K_page, JInt(0))>> \o b) :
        b \in {<<>>} \cup {<<Pair(K_coffee_beans, v)>> : v \in BeansValues} }
    \cup { JInt(5) }

StructureDocs ==
    { JList(es) : es \in UNION {[1..n -> PageEntries] : n \in 0..MaxEntries} }

\* Lists of three entries: entries that yield a group between entries that
\* yield none.
MixedEntries ==
    { JInt(5),
      JDict(<<Pair(K_coffee_beans, JList(<<>>))>>),
      JDict(<<Pair(K_coffee_beans, JList(<<BeanA>>))>>),
      JDict(<<Pair(K_page, JInt(2)), Pair(K_coffee_beans, JList(<<JInt(7), BeanA, BeanB>>))>>) }

MixedDocs == { JList(es) : es \in [1..3 -> MixedEntries] }

\* Documents that are not a list.
NonListDocs ==
    { JNull, JInt(1), JStr(<<"x">>), JDict(<<>>),
      JDict(<<Pair(K_page, JInt(1)), Pair(K_coffee_beans, JList(<<BeanA>>))>>) }

Member(key, values) == {<<>>} \cup {<<Pair(key, v)>> : v \in values}

NameValues == { JNull, JStr(<<>>), JStr(S_None), JStr(<<"A">>) }

StringValues ==
    { JNull, JStr(<<>>), JStr(S_None), JStr(<<"A">>), JInt(5), JInt(-12),
      JFloat((5 * FloatScale) \div 2), JBool(TRUE), JBool(FALSE), JList(<<>>),
      JDict(<<>>), JList(<<JInt(1), JStr(<<"a">>), JNull>>),
      JDict(<<Pair(<<"k">>, JFloat(FloatScale))>>) }

SeasonValues ==
    { JStr(<<"2", "0", "2", "4", "/", "2", "5">>), JStr(<<"x", "1", "8", "8", "8">>),
      JStr(<<"1", "8", "2", "0", "2", "4">>), JStr(<<"2", "4">>), JInt(2024) }

PriceAlphabet == {"8", "4", ".", "x"}

PriceStrings == UNION {[1..n -> PriceAlphabet] : n \in 0..MaxPriceLen}

PriceValues ==
    { JStr(s) : s \in PriceStrings }
    \cup { JNull, JInt(84), JInt(0), JFloat((17 * FloatScale) \div 2), JBool(TRUE),
           JBool(FALSE), JList(<<JInt(8)>>), JDict(<<>>) }

SoldOutValues ==
    { JBool(TRUE), JBool(FALSE), JNull, JInt(0), JInt(1), JInt(2), JFloat(0),
      JFloat(FloatScale \div 2), JList(<<>>), JList(<<JInt(0)>>), JStr(<<>>),
      JStr(<<"t", "r", "u", "e">>), JStr(<<"T", "R", "U", "E">>), JStr(<<"1">>),
      JStr(<<"y", "e", "s">>), JStr(<<"o", "n">>),
      JStr(<<"f", "a", "l", "s", "e">>), JStr(<<"0">>), JStr(<<"n", "o">>),
      JStr(<<"o", "f", "f">>), JStr(<<"x">>) }

\* Item mappings: one group of fields varies at a time.
FieldBeans ==
    { JDict(n \o c \o o) :
        n \in Member(K_name, NameValues),
        c \in Member(K_code, {JStr(<<>>), JStr(<<"c">>)}),
        o \in Member(K_origin, StringValues) }
    \cup { JDict(<<Pair(K_name, JStr(<<"A">>))>> \o h) :
             h \in Member(K_harvest_season, SeasonValues) }
    \cup { JDict(<<Pair(K_name, JStr(<<"A">>))>> \o k \o g) :
             k \in Member(K_price_per_kg, PriceValues),
             g \in Member(K_price_per_pkg, {JStr(<<"8">>)}) }
    \cup { JDict(<<Pair(K_name, JStr(<<"A">>))>> \o so) :
             so \in Member(K_sold_out, SoldOutValues) }

FieldDocs ==
    { JList(<<JDict(<<Pair(K_page, JInt(1)), Pair(K_coffee_beans, JList(<<b>>))>>)>>) :
        b \in FieldBeans }

\* A flat list of item records, the shape the flavor prompt asks for.
FlatDocs == { JList(<<BeanB>>), JList(<<BeanB, JInt(5), BeanA>>) }

K_flavor_category ==
    <<"f", "l", "a", "v", "o", "r", "_", "c", "a", "t", "e", "g", "o", "r", "y">>

\* Replies to the categorization prompt: a record without its category and a
\* record with it.
CategoryDocs ==
    { JList(<<JDict(<<Pair(K_code, JStr(<<"A", "1">>)),
                      Pair(K_flavor_profile, JStr(<<"n", "u", "t", "t", "y">>))>>)>>),
      JList(<<JDict(<<Pair(K_code, JStr(<<"A", "1">>)),
                      Pair(K_flavor_profile, JStr(<<"n", "u", "t", "t", "y">>)),
                      Pair(K_flavor_category, JStr(<<"n", "u", "t">>))>>)>>) }

\* What FlavorCategorizer may parse: the shapes above that differ for it.
FlavorDocs ==
    FlatDocs \cup NonListDocs \cup CategoryDocs
    \cup { JList(<<>>), JList(<<JInt(5)>>), JList(<<JList(<<>>)>>),
           JList(<<JDict(<<Pair(K_page, JInt(1)),
                           Pair(K_coffee_beans, JList(<<BeanA>>))>>)>>) }

Docs == StructureDocs \cup MixedDocs \cup NonListDocs \cup FieldDocs \cup FlatDocs

\* FlavorCategorizer's check of the parsed result: a list is returned as it is.
ReturnList ==
    /\ pc = "clean"
    /\ analyzer = "flavor"
    /\ returned' = Returned("flavor", result, 0)
    /\ outcome' = "parsed"
    /\ pc' = "returned"
    /\ UNCHANGED <<mode, received, full_response, text, scanVars, analyzer,
                   result, cleaned_result, pdf_page_count, beans_data>>
    /\ UNCHANGED extVars

\* A parsed document is handed to the step after json.loads.
InitClean ==
    /\ mode = "clean"
    /\ received = <<>>
    /\ full_response = <<>>
    /\ pc = "clean"
    /\ text = <<>>
    /\ start_pos = 0
    /\ end_char = ""
    /\ i = 0
    /\ bracket_count = 0
    /\ in_string = FALSE
    /\ escape_next = FALSE
    /\ path = "none"
    /\ json_str = <<>>
    /\ analyzer \in Analyzers
    /\ result \in IF analyzer = "flavor" THEN FlavorDocs ELSE Docs
    /\ cleaned_result = JList(<<>>)
    /\ returned = JNull
    /\ pdf_page_count = 0
    /\ outcome = "none"
    /\ beans_data = <<>>
    /\ IdleExt

NextClean ==
    \/ CallCleanResults
    \/ \E count \in PageCounts : ReturnResult(count)
    \/ ReturnList
    \/ \E bean_type \in BeanTypes : ProcessJsonFile(bean_type)

SpecClean == InitClean /\ [][NextClean]_vars


\* ------------------------------------------------- reference definitions
\* Definitions the properties below are stated with; none is used by an action.

Openers == {"{", "["}

CloserOf(c) == IF c = "{" THEN "}" ELSE "]"

HasOpener(s) == \E k \in 1..Len(s) : s[k] \in Openers

\* The position of the earliest '{' or '[' of s (0 without one).
EarliestOpener(s) ==
    IF HasOpener(s)
    THEN CHOOSE k \in 1..Len(s) : s[k] \in Openers /\ \A m \in 1..(k - 1) : s[m] \notin Openers
    ELSE 0

\* Whitespace-collapse: each maximal run of whitespace becomes one space.
RECURSIVE Collapse(_)
Collapse(s) ==
    IF s = <<>> THEN <<>>
    ELSE IF ~IsSpace(Head(s)) THEN <<Head(s)>> \o Collapse(Tail(s))
    ELSE IF Len(s) > 1 /\ IsSpace(s[2]) THEN Collapse(Tail(s))
    ELSE <<" ">> \o Collapse(Tail(s))

\* s without its line breaks.
RECURSIVE DropBreaks(_)
DropBreaks(s) ==
    IF s = <<>> THEN <<>>
    ELSE IF Head(s) \in {"\n", "\r"} THEN DropBreaks(Tail(s))
    ELSE <<Head(s)>> \o DropBreaks(Tail(s))

\* s without leading and trailing whitespace.
RECURSIVE Strip(_)
Strip(s) ==
    IF s = <<>> THEN <<>>
    ELSE IF IsSpace(Head(s)) THEN Strip(Tail(s))
    ELSE IF IsSpace(s[Len(s)]) THEN Strip(SubSeq(s, 1, Len(s) - 1))
    ELSE s

\* The non-whitespace characters of s, in order.
RECURSIVE NonSpace(_)
NonSpace(s) ==
    IF s = <<>> THEN <<>>
    ELSE IF IsSpace(Head(s)) THEN NonSpace(Tail(s))
    ELSE <<Head(s)>> \o NonSpace(Tail(s))

\* Line breaks deleted, remaining whitespace runs collapsed, ends stripped.
Cleaned(s) == Strip(Collapse(DropBreaks(s)))

\* A character is escaped when an unescaped backslash precedes it.
RefEscaped(s) ==
    LET RECURSIVE E(_)
        E(k) == k > 1 /\ s[k - 1] = "\\" /\ ~E(k - 1)
    IN  [k \in 1..Len(s) |-> E(k)]

\* Position k is read inside a string: an odd number of unescaped quotes precede it.
RefInString(s) ==
    LET esc == RefEscaped(s)
    IN  [k \in 1..Len(s) |->
            Cardinality({m \in 1..(k - 1) : s[m] = "\"" /\ ~esc[m]}) % 2 = 1]

\* Position k holds a structural character: unescaped, outside strings.
RefStructural(s) ==
    LET esc == RefEscaped(s)
        ins == RefInString(s)
    IN  [k \in 1..Len(s) |-> ~esc[k] /\ ~ins[k] /\ s[k] \notin {"\\", "\""}]

\* Openers minus closers of the kind of s[1], outside strings, among s[1..k].
RefDepths(s) ==
    LET st == RefStructural(s)
        open == s[1]
        close == CloserOf(s[1])
    IN  [k \in 0..Len(s) |->
            Cardinality({m \in 1..k : st[m] /\ s[m] = open})
            - Cardinality({m \in 1..k : st[m] /\ s[m] = close})]

\* The count returns to 0 exactly at the last character of s.
BalancedSpan(s) ==
    /\ s # <<>>
    /\ s[1] \in Openers
    /\ LET d == RefDepths(s) IN
       /\ d[Len(s)] = 0
       /\ \A k \in 1..(Len(s) - 1) : d[k] > 0

\* No prefix of s is a balanced span.
NeverBalanced(s) ==
    LET d == RefDepths(s) IN \A k \in 1..Len(s) : d[k] > 0

\* s is a balanced JSON-like object or array: brackets of both kinds nest
\* properly (checked with a stack), strings are closed, backslashes occur only
\* inside strings, strings hold no raw line break, and the outermost bracket
\* closes at the last character.
RECURSIVE NestsFrom(_, _, _, _)
NestsFrom(s, k, stack, instr) ==
    IF k > Len(s) THEN FALSE
    ELSE IF instr THEN
        (IF s[k] = "\\" THEN NestsFrom(s, k + 2, stack, TRUE)
         ELSE IF s[k] = "\"" THEN NestsFrom(s, k + 1, stack, FALSE)
         ELSE IF s[k] \in {"\n", "\r"} THEN FALSE
         ELSE NestsFrom(s, k + 1, stack, TRUE))
    ELSE IF s[k] = "\"" THEN stack # <<>> /\ NestsFrom(s, k + 1, stack, TRUE)
    ELSE IF s[k] \in Openers THEN NestsFrom(s, k + 1, <<s[k]>> \o stack, FALSE)
    ELSE IF s[k] \in {"}", "]"} THEN
        /\ stack # <<>>
        /\ CloserOf(Head(stack)) = s[k]
        /\ IF Len(stack) = 1 THEN k = Len(s) ELSE NestsFrom(s, k + 1, Tail(stack), FALSE)
    ELSE IF s[k] = "\\" THEN FALSE
    ELSE NestsFrom(s, k + 1, stack, FALSE)

WellFormedJson(s) == Len(s) >= 2 /\ s[1] \in Openers /\ NestsFrom(s, 1, <<>>, FALSE)

\* The delta content string a line carries ("" when it carries none).
DeltaContent(line) ==
    IF /\ line.raw = "text" /\ line.prefix
       /\ line.data.json = "dict" /\ line.data.choices = "list"
       /\ line.data.choice0 = "dict" /\ line.data.delta = "dict"
       /\ line.data.content = "str"
    THEN line.data.text ELSE <<>>

IsDoneLine(line) == line.raw = "text" /\ line.prefix /\ line.data.json = "done"

\* The concatenation, in arrival order, of the delta contents of the lines
\* before the first [DONE] line.
RECURSIVE ContentBeforeDone(_)
ContentBeforeDone(ls) ==
    IF ls = <<>> THEN <<>>
    ELSE IF IsDoneLine(Head(ls)) THEN <<>>
    ELSE DeltaContent(Head(ls)) \o ContentBeforeDone(Tail(ls))

\* The stream was consumed to its end (a [DONE] line or exhaustion) or aborted.
StreamOver == mode = "stream" /\ pc # "stream"

\* The buffer was handed to _process_response_content.
Handed == mode = "stream" /\ pc \in {"find", "scan", "extracted"}

\* The span the extractor selected, by return path.
SelectedSpan ==
    IF path = "balanced" THEN SubSeq(text, start_pos, i)
    ELSE SubSeq(text, start_pos, Len(text))

\* ------------------------------------------------------------------ claims

\* C1: whenever the streaming handler hands its buffer to extraction, the
\* buffer is the concatenation, in arrival order, of the delta content strings
\* of the 'data: ' lines received before the first 'data: [DONE]' line; empty
\* lines, lines without the prefix, chunks without content and lines after
\* [DONE] contribute nothing.
C1_BufferIsContentBeforeDone ==
    Handed => /\ text = ContentBeforeDone(received)
              /\ full_response = text

\* Two different content fragments, a skipped line between them, then [DONE].
C1_Witness ==
    /\ Handed
    /\ Len(received) = 3
    /\ DeltaContent(received[1]) # <<>>
    /\ DeltaContent(received[2]) # <<>>
    /\ DeltaContent(received[1]) # DeltaContent(received[2])
    /\ IsDoneLine(received[3])
    /\ text = DeltaContent(received[1]) \o DeltaContent(received[2])

\* C2: a fragment whose payload fails JSON parsing or parses to something
\* that is not a chunk object of the expected shape is skipped and is not
\* fatal: once the stream is over, the content of the other fragments has
\* been accumulated and handed to extraction.
C2_BadPayloadIsSkipped ==
    (StreamOver /\ \A k \in 1..Len(received) : received[k].raw # "undecodable")
        => /\ Handed
           /\ text = ContentBeforeDone(received)

\* The text from its earliest opener on, and the candidates for T.
Remainder == SubSeq(text, EarliestOpener(text), Len(text))

JsonEnds == {e \in 1..Len(text) :
                HasOpener(text) /\ WellFormedJson(SubSeq(text, EarliestOpener(text), e))}

IsSubstring(a, s) ==
    \E k \in 0..(Len(s) - Len(a)) : SubSeq(s, k + 1, k + Len(a)) = a

\* C3 as stated: for text = prefix + T + suffix, prefix without '{' or '[' and
\* T a balanced JSON object or array, the returned string whitespace-collapsed
\* equals T whitespace-collapsed.
C3_CollapsedEqualsJson ==
    pc = "extracted" =>
        \A e \in JsonEnds :
            Collapse(json_str) = Collapse(SubSeq(text, EarliestOpener(text), e))

\* s has a maximal whitespace run that consists of line breaks only.
HasBreakOnlyRun(s) ==
    \E a \in 1..Len(s) : \E b \in a..Len(s) :
        /\ \A k \in a..b : s[k] \in {"\n", "\r"}
        /\ a = 1 \/ ~IsSpace(s[a - 1])
        /\ b = Len(s) \/ ~IsSpace(s[b + 1])

\* C3 amended: the returned string equals T with its line breaks deleted and
\* its remaining whitespace runs collapsed; that is T whitespace-collapsed
\* exactly when no whitespace run of T consists of line breaks only.
C3_CleanedEqualsJson ==
    pc = "extracted" =>
        \A e \in JsonEnds :
            LET T == SubSeq(text, EarliestOpener(text), e) IN
            /\ json_str = Collapse(DropBreaks(T))
            /\ Collapse(json_str) = Collapse(T) <=> ~HasBreakOnlyRun(T)

\* T holds a string with a bracket and an escaped quote, and a suffix follows.
C3_Witness ==
    /\ pc = "extracted"
    /\ \E e \in JsonEnds :
          /\ e < Len(text)
          /\ \E k \in EarliestOpener(text)..e : text[k] = "\\"
          /\ \E k \in EarliestOpener(text)..e : text[k] = "\n"

\* The character the scan is about to read is structural (outside strings,
\* unescaped), by the reference definition.
AtStructural ==
    RefStructural(Remainder)[i - EarliestOpener(text) + 1]

C4_State ==
    /\ bracket_count >= 0
    /\ pc = "scan" =>
          /\ start_pos > 0
          /\ start_pos = EarliestOpener(text)
          /\ i = start_pos => (bracket_count = 0 /\ ~in_string /\ ~escape_next)
          /\ i > start_pos => bracket_count > 0
    /\ path = "balanced" =>
          /\ start_pos = EarliestOpener(text)
          /\ bracket_count = 0
          /\ BalancedSpan(SubSeq(text, start_pos, i))
          /\ NonSpace(json_str) = NonSpace(SubSeq(text, start_pos, i))

C4_Step ==
    (pc = "scan" /\ i <= Len(text) /\ AtStructural) =>
        /\ text[i] = text[start_pos] => bracket_count' = bracket_count + 1
        /\ text[i] = CloserOf(text[start_pos]) => bracket_count' = bracket_count - 1
        /\ pc' = "extracted" <=> bracket_count' = 0

\* C4: the scan starts at the earliest '{' or '[' with depth 0; outside
\* strings the opener of the chosen kind adds 1 and its closer subtracts 1;
\* the scan stops at the first index where the depth is 0 again and returns
\* the span from the start through that index; the depth is never negative
\* and no shorter prefix of the span is balanced.
C4_ScanStopsAtFirstZero == []C4_State /\ [][C4_Step]_vars

\* A nested span closed after its depth went 1, 2, 1, 0.
C4_Witness ==
    /\ path = "balanced"
    /\ i >= start_pos + 3
    /\ RefDepths(SubSeq(text, start_pos, i))[i - start_pos - 1] = 2

C5_Step ==
    (pc = "scan" /\ i <= Len(text)) =>
        /\ in_string => (bracket_count' = bracket_count /\ pc' = "scan")
        /\ (~escape_next /\ text[i] = "\"") => in_string' = ~in_string
        /\ (~escape_next /\ text[i] = "\\") =>
              (escape_next' /\ in_string' = in_string /\ bracket_count' = bracket_count)
        /\ escape_next =>
              /\ ~escape_next'
              /\ in_string' = in_string
              /\ bracket_count' = bracket_count
              /\ pc' = "scan"
        /\ in_string' # in_string => (~escape_next /\ text[i] = "\"")
        /\ escape_next' => (~escape_next /\ text[i] = "\\")

\* C5: a character read inside a string never changes the depth; an
\* unescaped double quote toggles the inside-string flag; a backslash arms an
\* escape for exactly the next character, which is then neither a quote nor a
\* bracket for the scan.
C5_StringsAndEscapes == [][C5_Step]_vars

\* Inside a string, past a closer and an escaped quote, the depth still 1.
C5_Witness ==
    /\ pc = "scan"
    /\ in_string
    /\ bracket_count = 1
    /\ i >= start_pos + 4
    /\ text[i - 1] = "\""
    /\ text[i - 2] = "\\"
    /\ text[i - 3] = text[start_pos + 2]
    /\ text[i - 3] = end_char

C6_State ==
    (pc = "scan" \/ path \in {"balanced", "fallback"}) =>
        /\ start_pos = EarliestOpener(text)
        /\ end_char = CloserOf(text[start_pos])

C6_Step ==
    (pc = "scan" /\ i <= Len(text)) =>
        /\ end_char' = end_char
        /\ start_pos' = start_pos
        /\ (end_char = "}" /\ text[i] \in {"[", "]"}) =>
              (bracket_count' = bracket_count /\ pc' = "scan")
        /\ (end_char = "]" /\ text[i] \in {"{", "}"}) =>
              (bracket_count' = bracket_count /\ pc' = "scan")

\* C6: only the bracket kind of the first opening character is counted, with
\* one integer: brackets of the other kind never change the depth, and the
\* expected closer is fixed once by whichever of '{' or '[' occurs first.
C6_OneBracketKind == []C6_State /\ [][C6_Step]_vars

\* A '{' span closed although a '[' inside it never was.
C6_Witness ==
    /\ path = "balanced"
    /\ end_char = "}"
    /\ \E k \in start_pos..i : text[k] = "["
    /\ \A k \in start_pos..i : text[k] # "]"

C8_EmptyIffNoBracket ==
    pc = "extracted" => (json_str = <<>> <=> ~HasOpener(text))

\* A non-empty text without brackets gave "".
C8_Witness ==
    /\ pc = "extracted"
    /\ path = "empty"
    /\ json_str = <<>>
    /\ Len(text) >= 2

\* C9 as stated: each maximal run of whitespace of the selected span appears
\* in the returned string as exactly one space.
C9_RunsBecomeOneSpace ==
    path \in {"balanced", "fallback"} => json_str = Collapse(SelectedSpan)

\* C9 amended: line breaks are deleted, each remaining whitespace run becomes
\* one space, a trailing run is dropped; non-whitespace characters are
\* unchanged and keep their order.
C9_BreaksDeletedRunsCollapsed ==
    path \in {"balanced", "fallback"} =>
        /\ json_str = Cleaned(SelectedSpan)
        /\ NonSpace(json_str) = NonSpace(SelectedSpan)

\* A span with a line break between two non-whitespace characters.
C9_Witness ==
    /\ path = "balanced"
    /\ \E k \in (start_pos + 1)..(i - 1) :
          text[k] = "\n" /\ ~IsSpace(text[k - 1]) /\ ~IsSpace(text[k + 1])

Cleaned2 == mode = "clean" /\ analyzer \in Impls /\ pc \in {"cleaned", "returned", "merged"}

Has(v, key) == v.t = "dict" /\ \E j \in 1..Len(v.d) : v.d[j].k = key

\* The value of a key the mapping has (the model's documents repeat no key).
Val(v, key) == v.d[CHOOSE j \in 1..Len(v.d) : v.d[j].k = key].v

IsMapping(v) == v.t = "dict"

\* The items of an entry that are mappings, in order.
MappingItems(entry) ==
    IF IsMapping(entry) /\ Has(entry, K_coffee_beans) /\ Val(entry, K_coffee_beans).t = "list"
    THEN SelectSeq(Val(entry, K_coffee_beans).items, IsMapping)
    ELSE <<>>

SourceEntries == IF result.t = "list" THEN result.items ELSE <<>>

\* The positions (1-based) of the entries that hold at least one mapping item.
Contributing == {k \in 1..Len(SourceEntries) : MappingItems(SourceEntries[k]) # <<>>}

\* The position of the g-th contributing entry.
SourcePos(g) ==
    CHOOSE k \in Contributing : Cardinality({m \in Contributing : m < k}) = g - 1

Groups == cleaned_result.items

Records(group) == Val(group, K_coffee_beans).items

\* Every (group, record) index pair of the output.
RecordIds ==
    UNION {{<<g, r>> : r \in 1..Len(Records(Groups[g]))} : g \in 1..Len(Groups)}

\* The output has one group per contributing entry and one record per mapping item.
OneToOne ==
    /\ Len(Groups) = Cardinality(Contributing)
    /\ \A g \in 1..Len(Groups) :
           Len(Records(Groups[g])) = Len(MappingItems(SourceEntries[SourcePos(g)]))

\* The item a record was made from.
SourceItem(g, r) == MappingItems(SourceEntries[SourcePos(g)])[r]

\* The declared schema of an item record.
SchemaFields ==
    { K_code, K_name, K_country, K_flavor_profile, K_price_per_kg, K_price_per_pkg,
      K_origin, K_plot, K_estate, K_grade, K_humidity, K_altitude, K_density,
      K_processing_method, K_harvest_season, K_variety, K_sold_out }

StringFields == SchemaFields \ {K_price_per_kg, K_price_per_pkg, K_sold_out}

\* The fields llm_parser.py's record lacks.
PdfOmitted == {K_plot, K_estate, K_sold_out}

FieldsOf(a) == IF a = "text" THEN SchemaFields ELSE SchemaFields \ PdfOmitted

KeysOf(v) == {v.d[j].k : j \in 1..Len(v.d)}

DefaultOf(key) ==
    IF key \in {K_price_per_kg, K_price_per_pkg} THEN JNull
    ELSE IF key = K_sold_out THEN JBool(FALSE)
    ELSE JStr(<<>>)

EmptyList == JList(<<>>)

\* -------------------------------------------------------- claims C11 - C20

\* C11: for every input text, _process_response_content of each of the three
\* analyzers returns a list and lets no exception escape; the list is empty
\* when the text holds no opening bracket, when the extracted text fails JSON
\* parsing, and when the parsed value is not a list.
C11_ReturnsListNeverRaises ==
    /\ pc # "raised"
    /\ (pc = "returned" /\ mode \in {"stream", "direct"}) =>
           /\ returned.t = "list"
           /\ ~HasOpener(text) => returned = EmptyList
           /\ outcome = "json_error" => returned = EmptyList
           /\ (outcome = "parsed" /\ result.t # "list") => returned = EmptyList

\* The parsed document has an accepted shape, on the widest reading: a list of
\* mappings in which every coffee_beans present is a list of mappings.
AcceptedShape ==
    /\ result.t = "list"
    /\ \A k \in 1..Len(result.items) :
           LET entry == result.items[k] IN
           /\ IsMapping(entry)
           /\ Has(entry, K_coffee_beans) =>
                  /\ Val(entry, K_coffee_beans).t = "list"
                  /\ \A j \in 1..Len(Val(entry, K_coffee_beans).items) :
                         IsMapping(Val(entry, K_coffee_beans).items[j])

\* The number of mapping items the mapping entries of the document hold.
RECURSIVE CountItems(_)
CountItems(entries) ==
    IF entries = <<>> THEN 0
    ELSE Len(MappingItems(entries[1])) + CountItems(Tail(entries))

RECURSIVE CountRecords(_)
CountRecords(groups) ==
    IF groups = <<>> THEN 0
    ELSE Len(Records(groups[1])) + CountRecords(Tail(groups))

\* C12 as stated: a parsed document that matches no accepted shape is
\* rejected (empty result), never partially accepted.
C12_NonConformingRejected ==
    /\ (Cleaned2 /\ ~AcceptedShape) => cleaned_result = EmptyList
    /\ (mode = "clean" /\ analyzer = "flavor" /\ pc = "returned" /\ ~AcceptedShape)
           => returned = EmptyList

\* C12 amended: only a document that is not a list is rejected.  Of a list,
\* clean_results skips the entries and items that are not mappings and keeps
\* one record for every mapping item of the mapping entries;
\* FlavorCategorizer returns every list as it is.
C12_OnlyNonListRejected ==
    /\ Cleaned2 =>
           /\ result.t # "list" => cleaned_result = EmptyList
           /\ CountRecords(Groups) = CountItems(SourceEntries)
    /\ (mode = "clean" /\ analyzer = "flavor" /\ pc = "returned") =>
           returned = IF result.t = "list" THEN result ELSE EmptyList

\* A non-conforming list was cleaned and part of it was kept.
C12_Witness ==
    /\ Cleaned2
    /\ result.t = "list"
    /\ ~AcceptedShape
    /\ \E k \in 1..Len(result.items) : ~IsMapping(result.items[k])
    /\ CountRecords(Groups) > 0

\* The page the claim expects for the group made from the entry at position k
\* (1-based, so k is i + 1): the entry's own page when that is a positive
\* integer, the position otherwise.
ExpectedPage(k) ==
    LET entry == SourceEntries[k] IN
    IF Has(entry, K_page) /\ Val(entry, K_page).t = "int" /\ Val(entry, K_page).n > 0
    THEN Val(entry, K_page)
    ELSE JInt(k)

\* C13: a page that is missing, not an integer or not positive is replaced by
\* i + 1, the entry's raw position in the parsed list counted from 1; a
\* positive integer page is emitted unchanged.
C13_PageOrRawPosition ==
    Cleaned2 =>
        /\ OneToOne
        /\ \A g \in 1..Len(Groups) : Val(Groups[g], K_page) = ExpectedPage(SourcePos(g))

\* The page of the entry is one the code replaces: missing, not an int (a
\* JSON true or false is an int to isinstance) or <= 0.
PageReplaced(entry) ==
    \/ ~Has(entry, K_page)
    \/ Val(entry, K_page).t \notin {"int", "bool"}
    \/ Val(entry, K_page).n <= 0

\* The page of the entry is invalid in the claim's words: missing, not an
\* integer, or not positive.
PageInvalid(entry) ==
    \/ ~Has(entry, K_page)
    \/ Val(entry, K_page).t # "int"
    \/ Val(entry, K_page).n <= 0

\* The 1-based position of entry k among the mapping entries up to it.
PositionAmongMappings(k) ==
    Cardinality({m \in 1..k : IsMapping(SourceEntries[m])})

\* C14 as stated: a non-mapping entry consumes no index slot; the fallback
\* page of an entry with an invalid page is its position among the mapping
\* entries seen so far.
C14_FallbackAmongMappings ==
    Cleaned2 =>
        \A g \in 1..Len(Groups) :
            PageInvalid(SourceEntries[SourcePos(g)]) =>
                Val(Groups[g], K_page) = JInt(PositionAmongMappings(SourcePos(g)))

\* C14 amended: a non-mapping entry yields no group but does consume an
\* index slot; a replaced page is the entry's 1-based position in the
\* original list.
C14_FallbackIsRawPosition ==
    Cleaned2 =>
        /\ Len(Groups) <= Cardinality({k \in 1..Len(SourceEntries) :
                                          IsMapping(SourceEntries[k])})
        /\ \A g \in 1..Len(Groups) :
               PageReplaced(SourceEntries[SourcePos(g)]) =>
                   Val(Groups[g], K_page) = JInt(SourcePos(g))

\* A group follows a skipped non-mapping entry and carries a fallback page.
C14_Witness ==
    /\ Cleaned2
    /\ \E g \in 1..Len(Groups) :
           /\ PageReplaced(SourceEntries[SourcePos(g)])
           /\ \E m \in 1..(SourcePos(g) - 1) : ~IsMapping(SourceEntries[m])
           /\ Val(Groups[g], K_page) = JInt(SourcePos(g))

\* A record holds the key with the default wherever its source item lacks it.
DefaultsWhereMissing(g, r, keys) ==
    \A key \in keys :
        ~Has(SourceItem(g, r), key) =>
            /\ Has(Records(Groups[g])[r], key)
            /\ Val(Records(Groups[g])[r], key) = DefaultOf(key)

\* C15 as stated: every record emitted by either clean_results holds every
\* field of the declared schema, with the default where the source lacked it.
C15_EveryRecordHasSchema ==
    Cleaned2 =>
        \A id \in RecordIds :
            /\ KeysOf(Records(Groups[id[1]])[id[2]]) = SchemaFields
            /\ DefaultsWhereMissing(id[1], id[2], SchemaFields)

\* C15 amended: the text analyzer's record holds the 17 schema fields; the PDF
\* analyzer's record holds them without plot, estate and sold_out; either
\* gives a field its default where the source item lacked it.
C15_RecordHasAnalyzerFields ==
    Cleaned2 =>
        \A id \in RecordIds :
            /\ KeysOf(Records(Groups[id[1]])[id[2]]) = FieldsOf(analyzer)
            /\ Len(Records(Groups[id[1]])[id[2]].d) = Cardinality(FieldsOf(analyzer))
            /\ DefaultsWhereMissing(id[1], id[2], FieldsOf(analyzer))

\* The text analyzer emitted a record for an item that lacked schema fields.
C15_Witness ==
    /\ Cleaned2
    /\ analyzer = "text"
    /\ \E id \in RecordIds :
           /\ ~Has(SourceItem(id[1], id[2]), K_sold_out)
           /\ ~Has(SourceItem(id[1], id[2]), K_price_per_kg)
           /\ ~Has(SourceItem(id[1], id[2]), K_plot)
           /\ Val(Records(Groups[id[1]])[id[2]], K_sold_out) = JBool(FALSE)

\* The records of a result, group after group.
RECURSIVE AllRecords(_)
AllRecords(groups) ==
    IF groups = <<>> THEN <<>>
    ELSE Records(groups[1]) \o AllRecords(Tail(groups))

NoneText == <<"N", "o", "n", "e">>

HasNoName(record) == Val(record, K_name) \in {JStr(<<>>), JStr(NoneText)}

\* The records of the saved result that process_json_file keeps.
KeptAtMerge == SelectSeq(AllRecords(returned.items), LAMBDA rec : ~HasNoName(rec))

\* C16 as stated: the normalizer drops every item whose name is empty, so no
\* emitted record has an empty name and a page whose items all have an empty
\* name is absent from the output.
C16_NoEmptyNameEmitted ==
    Cleaned2 =>
        \A id \in RecordIds : Val(Records(Groups[id[1]])[id[2]], K_name) # JStr(<<>>)

\* C16 amended: clean_results emits a record for every mapping item, with
\* name '' when the item has no name or an empty one; process_json_file then
\* keeps exactly the records whose name is neither '' nor 'None'.
C16_EmptyNamesDroppedAtMerge ==
    /\ Cleaned2 =>
           /\ OneToOne
           /\ \A id \in RecordIds :
                  (~Has(SourceItem(id[1], id[2]), K_name)
                   \/ Val(SourceItem(id[1], id[2]), K_name) = JStr(<<>>))
                      => Val(Records(Groups[id[1]])[id[2]], K_name) = JStr(<<>>)
    /\ (mode = "clean" /\ pc = "merged") =>
           /\ Len(beans_data) = Len(KeptAtMerge)
           /\ \A k \in 1..Len(beans_data) :
                  Val(beans_data[k], K_name) = Val(KeptAtMerge[k], K_name)

\* A page whose only item has an empty name was emitted by clean_results and
\* its record was dropped by process_json_file.
C16_Witness ==
    /\ mode = "clean" /\ pc = "merged"
    /\ Len(Groups) = 1
    /\ \A id \in RecordIds :
           /\ Has(SourceItem(id[1], id[2]), K_name)
           /\ Val(SourceItem(id[1], id[2]), K_name) = JStr(<<>>)
    /\ AllRecords(returned.items) # <<>>
    /\ beans_data = <<>>

\* The names of the records of a group match, in order, the names of the
\* mapping items of the entry (where the item has a name that is a string).
SameItemsInOrder(group, entry) ==
    /\ Len(Records(group)) = Len(MappingItems(entry))
    /\ \A r \in 1..Len(Records(group)) :
           LET item == MappingItems(entry)[r] IN
           (Has(item, K_name) /\ Val(item, K_name).t = "str")
               => Val(Records(group)[r], K_name) = Val(item, K_name)

\* C17: every group of clean_results' output has at least one record; an
\* entry that contributes no record (coffee_beans missing, not a list, empty,
\* or holding no mapping) has no group; the groups keep the order of their
\* entries.
C17_NoEmptyGroupOrderKept ==
    Cleaned2 =>
        /\ \A g \in 1..Len(Groups) : Records(Groups[g]) # <<>>
        /\ Len(Groups) = Cardinality(Contributing)
        /\ \A g \in 1..Len(Groups) :
               SameItemsInOrder(Groups[g], SourceEntries[SourcePos(g)])

\* Two groups were emitted around a mapping entry that contributed nothing.
C17_Witness ==
    /\ Cleaned2
    /\ Len(Groups) = 2
    /\ SourcePos(1) + 1 < SourcePos(2)
    /\ IsMapping(SourceEntries[SourcePos(1) + 1])
    /\ Len(Records(Groups[1])) # Len(Records(Groups[2]))

\* The string fields an analyzer's record holds.
StringFieldsOf(a) == StringFields \cap FieldsOf(a)

\* C18 as stated: a string field of an emitted record is '' when the source
\* value is missing, None, "None" or '', and str(value) otherwise.
C18_SentinelsCollapseInRecord ==
    Cleaned2 =>
        \A id \in RecordIds : \A key \in StringFieldsOf(analyzer) :
            Val(Records(Groups[id[1]])[id[2]], key) =
                IF \/ ~Has(SourceItem(id[1], id[2]), key)
                   \/ Val(SourceItem(id[1], id[2]), key)
                          \in {JNull, JStr(<<>>), JStr(NoneText)}
                THEN JStr(<<>>)
                ELSE JStr(PyStr(Val(SourceItem(id[1], id[2]), key)))

\* C18 amended: in a record of clean_results a string field is '' when the
\* key is missing and str(value) otherwise, so None becomes "None";
\* process_field_value then turns "None" and '' into '' and leaves any other
\* string (of a field other than harvest_season) as it is.
C18_StrThenCollapseAtMerge ==
    /\ Cleaned2 =>
           \A id \in RecordIds : \A key \in StringFieldsOf(analyzer) :
               Val(Records(Groups[id[1]])[id[2]], key) =
                   IF ~Has(SourceItem(id[1], id[2]), key) THEN JStr(<<>>)
                   ELSE JStr(PyStr(Val(SourceItem(id[1], id[2]), key)))
    /\ (mode = "clean" /\ pc = "merged") =>
           /\ Len(beans_data) = Len(KeptAtMerge)
           /\ \A k \in 1..Len(beans_data) :
                  \A key \in StringFieldsOf(analyzer) \ {K_harvest_season} :
                      Val(beans_data[k], key) =
                          IF Val(KeptAtMerge[k], key) \in {JStr(<<>>), JStr(NoneText)}
                          THEN JStr(<<>>)
                          ELSE Val(KeptAtMerge[k], key)

\* A null string field was emitted as "None" and merged as ''.
C18_Witness ==
    /\ mode = "clean" /\ pc = "merged"
    /\ Len(beans_data) = 1
    /\ \E id \in RecordIds :
           /\ Has(SourceItem(id[1], id[2]), K_origin)
           /\ Val(SourceItem(id[1], id[2]), K_origin) = JNull
           /\ Val(Records(Groups[id[1]])[id[2]], K_origin) = JStr(NoneText)
    /\ Val(beans_data[1], K_origin) = JStr(<<>>)

\* The price the claim expects for a source value: a number is kept, a string
\* gives the float of its first run of digits and dots (null without a run or
\* when the run is no float), anything else gives null.
ExpectedPrice(item) ==
    IF ~Has(item, K_price_per_kg) THEN JNull
    ELSE LET v == Val(item, K_price_per_kg) IN
         IF v.t \in {"int", "float"} THEN v
         ELSE IF v.t = "str" THEN
             (IF SearchRun(v.s).found /\ FloatOf(SearchRun(v.s).run).ok
              THEN JFloat(FloatOf(SearchRun(v.s).run).value)
              ELSE JNull)
         ELSE JNull

\* C19: price_per_kg of an emitted record is the source number, the float of
\* the first run of digits and dots of a source string (null when there is
\* none or it is no float), and null for a missing value or any other type.
C19_PriceCoercion ==
    Cleaned2 =>
        \A id \in RecordIds :
            Val(Records(Groups[id[1]])[id[2]], K_price_per_kg)
                = ExpectedPrice(SourceItem(id[1], id[2]))

UpperLetters == <<"A", "B", "C", "D", "E", "F", "G", "H", "I", "J", "K", "L", "M",
                  "N", "O", "P", "Q", "R", "S", "T", "U", "V", "W", "X", "Y", "Z">>

LowerLetters == <<"a", "b", "c", "d", "e", "f", "g", "h", "i", "j", "k", "l", "m",
                  "n", "o", "p", "q", "r", "s", "t", "u", "v", "w", "x", "y", "z">>

\* str.lower()
LowerCase(s) ==
    [k \in 1..Len(s) |->
        IF \E u \in 1..Len(UpperLetters) : UpperLetters[u] = s[k]
        THEN LowerLetters[CHOOSE u \in 1..Len(UpperLetters) : UpperLetters[u] = s[k]]
        ELSE s[k]]

TrueWords == { <<"t", "r", "u", "e">>, <<"1">>, <<"y", "e", "s">>, <<"o", "n">> }

\* The sold_out the claim expects for a source item.
ExpectedSoldOut(item) ==
    IF ~Has(item, K_sold_out) THEN FALSE
    ELSE LET v == Val(item, K_sold_out) IN
         IF v.t = "str" THEN LowerCase(v.s) \in TrueWords
         ELSE IF v.t \in {"bool", "int", "float"} THEN v.n # 0
         ELSE FALSE

\* C20: sold_out of an emitted record is true for the strings 'true', '1',
\* 'yes', 'on' (in any case) and for a non-zero number, and false for 'false',
\* '0', 'no', 'off', '' and anything else, a missing value included.
C20_SoldOutParsed ==
    (Cleaned2 /\ analyzer = "text") =>
        \A id \in RecordIds :
            Val(Records(Groups[id[1]])[id[2]], K_sold_out)
                = JBool(ExpectedSoldOut(SourceItem(id[1], id[2])))

\* ------------------------------------------------ properties C21-C30

\* C21: normalization is idempotent. For every parsed document,
\* clean_results applied to what clean_results returned gives the same
\* groups, page numbers, records and field values.
C21_CleanResultsIdempotent ==
    Cleaned2 => clean_results(cleaned_result, analyzer) = cleaned_result

\* A document the first pass changed in its pages, its entries and its fields:
\* an entry was dropped, a page was replaced and a value was converted.
C21_Witness ==
    /\ Cleaned2
    /\ pc = "cleaned"
    /\ Len(Groups) >= 1
    /\ Len(Groups) < Len(SourceEntries)
    /\ \E g \in 1..Len(Groups) :
           /\ PageReplaced(SourceEntries[SourcePos(g)])
           /\ SourcePos(g) # g
    /\ cleaned_result # result
    /\ clean_results(cleaned_result, analyzer) = cleaned_result

\* The three fields the categorization prompt declares for a record.
FlavorFields == {K_code, K_flavor_profile, K_flavor_category}

\* C22: in the flat-list pipeline every returned record carries code,
\* flavor_profile and flavor_category, with '' for a field the model omitted
\* and the model's value for a field it gave.
C22_FlavorRecordHasThreeFields ==
    (mode = "clean" /\ analyzer = "flavor" /\ pc = "returned") =>
        /\ Len(returned.items) = Len(SourceEntries)
        /\ \A k \in 1..Len(returned.items) :
               IsMapping(SourceEntries[k]) =>
                   /\ IsMapping(returned.items[k])
                   /\ FlavorFields \subseteq KeysOf(returned.items[k])
                   /\ \A key \in FlavorFields :
                          Val(returned.items[k], key) =
                              IF Has(SourceEntries[k], key)
                              THEN Val(SourceEntries[k], key) ELSE JStr(<<>>)

\* ------------------------------------------------ SQLQueryTool.run_query
\* Most run_query calls whose statement reaches the database.
MaxQueries == 2

W_select == <<"s", "e", "l", "e", "c", "t">>

\* The arguments run_query is called with: strings (a statement keyword,
\* with or without leading whitespace, in either case, and a tail) and a
\* value that is no string.
QueryWords ==
    { W_select, <<"S", "E", "L", "E", "C", "T">>, <<"d", "r", "o", "p">>, <<>> }

QueryStrings ==
    { lead \o word \o rest :
        lead \in {<<>>, <<" ">>}, word \in QueryWords, rest \in {<<>>, <<" ", "t">>} }

Queries == { JStr(q) : q \in QueryStrings } \cup { JInt(5) }

\* _validate_query: False for a value that is no str; query_lower is computed
\* and the test on it is commented out, so every str is valid.
validate_query(query) ==
    IF query.t # "str" THEN FALSE
    ELSE LET query_lower == LowerCase(Strip(query.s)) IN TRUE

\* The dictionaries run_query returns, by their "success" and "error" entries.
Response(success, error) == [success |-> success, error |-> error]

E_NotString == "Query must be a string"
E_OnlySelect == "Only SELECT statements are allowed for security reasons"
E_Database == "Database error"
E_Executing == "Error executing query"

\* What the try block can end with once pd.read_sql_query was given the
\* statement: the result dictionary, or one of the two except branches.
ExecutionResponses ==
    { Response(TRUE, ""), Response(FALSE, E_Database), Response(FALSE, E_Executing) }

\* run_query(query): the two early returns, then the statement is handed to
\* pd.read_sql_query on a connection to the database.
RunQuery(query, r) ==
    /\ Len(sql_executed) < MaxQueries
    /\ sql_query' = query
    /\ IF query.t # "str" THEN
           /\ r = Response(FALSE, E_NotString)
           /\ UNCHANGED sql_executed
       ELSE IF ~validate_query(query) THEN
           /\ r = Response(FALSE, E_OnlySelect)
           /\ UNCHANGED sql_executed
       ELSE
           /\ r \in ExecutionResponses
           /\ sql_executed' = Append(sql_executed, query.s)
    /\ sql_response' = r
    /\ UNCHANGED exceptSqlVars

AllResponses ==
    ExecutionResponses \cup {Response(FALSE, E_NotString), Response(FALSE, E_OnlySelect)}

\* A tool on an existing database file, nothing run yet.
InitSql ==
    /\ IdleBut({})

NextSql == \E query \in Queries, r \in AllResponses : RunQuery(query, r)

SpecSql == InitSql /\ [][NextSql]_vars

\* A SELECT statement: the test _validate_query has commented out.
IsSelectStatement(q) ==
    LET query_lower == LowerCase(Strip(q)) IN
    Len(query_lower) >= Len(W_select) /\ SubSeq(query_lower, 1, Len(W_select)) = W_select

\* C23: run_query allows only SELECT statements. A query string that is not a
\* SELECT statement is never handed to the database, and the call returns
\* success False with the error 'Only SELECT statements are allowed for
\* security reasons'.
C23_OnlySelectRuns ==
    /\ \A k \in 1..Len(sql_executed) : IsSelectStatement(sql_executed[k])
    /\ (sql_response.error # "none" /\ sql_query.t = "str" /\ ~IsSelectStatement(sql_query.s))
           => sql_response = Response(FALSE, E_OnlySelect)

\* ------------------------------------------------ the PDF page filter
\* The PDF analyzer has returned for a document that was parsed.
PdfReturned == mode = "clean" /\ analyzer = "pdf" /\ pc \in {"returned", "merged"}

\* The groups of the cleaned result whose page lies in 1..count, in order.
InRange(count) ==
    SelectSeq(cleaned_result.items,
              LAMBDA g : Val(g, K_page).n >= 1 /\ Val(g, K_page).n <= count)

\* C24: every page group CoffeeBeanPDFAnalyzer._process_response_content
\* returns has an integer page with 1 <= page <= the PDF's page count; the
\* groups of the cleaned result are returned in order except those whose page
\* exceeds the count (a page assigned by the fallback i + 1 included), and
\* with a page count of 0 the result is empty.
C24_PagesWithinPdf ==
    PdfReturned =>
        /\ \A k \in 1..Len(returned.items) :
               LET page_num == Val(returned.items[k], K_page) IN
               page_num.t = "int" /\ 1 <= page_num.n /\ page_num.n <= pdf_page_count
        /\ returned.items = InRange(pdf_page_count)
        /\ pdf_page_count = 0 => returned.items = <<>>

\* ------------------------------------------------ update_latest_data
\* Most update_latest_data calls made on one database.
MaxCalls == 3

\* The providers, years and months parse_filename takes from the file names.
Providers == {"p1", "p2"}
DataYears == {2024, 2025}
DataMonths == {1, 2}

\* cursor.fetchone(): the provider's row, None (<<>>) when it has none.
FetchOne(table, provider) == table[provider]

\* Mutant: only the months are compared.
ShouldUpdate_MonthOnly(existing, data_year, data_month) ==
    IF existing = <<>> THEN TRUE
    ELSE data_month > existing[2]

\* should_update: no row yet, or a later year, or the same year and a later month.
ShouldUpdate(existing, data_year, data_month) ==
    IF existing = <<>> THEN TRUE
    ELSE LET existing_year == existing[1]
             existing_month == existing[2]
         IN data_year > existing_year
                \/ (data_year = existing_year /\ data_month > existing_month)

\* INSERT OR REPLACE INTO latest_data: the provider's row is written, the
\* provider being the key of the table.
InsertOrReplace(table, provider, data_year, data_month) ==
    [table EXCEPT ![provider] = <<data_year, data_month>>]

UpdateLatestData(provider, data_year, data_month) ==
    /\ Len(update_calls) < MaxCalls
    /\ update_calls' = Append(update_calls,
                              [provider |-> provider, data_year |-> data_year,
                               data_month |-> data_month])
    /\ latest_data' =
           IF ShouldUpdate(FetchOne(latest_data, provider), data_year, data_month)
           THEN InsertOrReplace(latest_data, provider, data_year, data_month)
           ELSE latest_data
    /\ UNCHANGED exceptDbVars

\* The tables have just been created: latest_data has no row.
InitDb ==
    /\ IdleBut({"db"})
    /\ latest_data = [p \in Providers |-> <<>>]
    /\ update_calls = <<>>

NextDb ==
    \E provider \in Providers, data_year \in DataYears, data_month \in DataMonths :
        UpdateLatestData(provider, data_year, data_month)

SpecDb == InitDb /\ [][NextDb]_vars

\* (y1, m1) is later than (y2, m2): year first, then month.
Later(y1, m1, y2, m2) == y1 > y2 \/ (y1 = y2 /\ m1 > m2)

CallsFor(provider) ==
    {k \in 1..Len(update_calls) : update_calls[k].provider = provider}

\* The greatest pair among the calls made for the provider, <<>> without one.
GreatestFor(provider) ==
    IF CallsFor(provider) = {} THEN <<>>
    ELSE LET k == CHOOSE k \in CallsFor(provider) :
                      \A j \in CallsFor(provider) :
                          ~Later(update_calls[j].data_year, update_calls[j].data_month,
                                 update_calls[k].data_year, update_calls[k].data_month)
         IN <<update_calls[k].data_year, update_calls[k].data_month>>

C25_State == \A p \in Providers : latest_data[p] = GreatestFor(p)

\* One call: an older or equal pair leaves the provider's row as it was, and
\* the rows of the other providers are never changed.
C25_Step ==
    update_calls' # update_calls =>
        LET call == update_calls'[Len(update_calls')]
            row == latest_data[call.provider]
        IN /\ \A p \in Providers \ {call.provider} : latest_data'[p] = latest_data[p]
           /\ (row # <<>> /\ ~Later(call.data_year, call.data_month, row[1], row[2]))
                  => latest_data'[call.provider] = row

\* C25: after any sequence of update_latest_data calls the latest_data row of
\* each provider holds the greatest (data_year, data_month) pair, year first
\* then month, among the calls made for that provider; a call with an older
\* or equal pair leaves the row unchanged, and a call for one provider never
\* changes the row of another.
C25_LatestIsGreatest == []C25_State /\ [][C25_Step]_vars

\* Both providers have a row, one of them after a call with an older pair and
\* a call with an equal pair that followed the greatest one.
C25_Witness ==
    /\ Len(update_calls) = MaxCalls
    /\ \E p \in Providers :
           /\ Cardinality(CallsFor(p)) >= 2
           /\ \E k \in CallsFor(p) :
                  /\ <<update_calls[k].data_year, update_calls[k].data_month>> = latest_data[p]
                  /\ \E j \in CallsFor(p) :
                         /\ j > k
                         /\ Later(latest_data[p][1], latest_data[p][2],
                                  update_calls[j].data_year, update_calls[j].data_month)
    /\ \A p \in Providers : latest_data[p] # <<>>

\* ------------------------------------ get_latest_data_for_provider
\* The last tick of the clock.
MaxTime == 4

\* timedelta(hours=1), in ticks.
Hour == 2

Times == 0..MaxTime

\* _is_cache_valid: the provider has an expiration and now is before it.
IsCacheValid_Inclusive(expiration, provider, now) ==
    IF expiration[provider] = <<>> THEN FALSE
    ELSE now <= expiration[provider][1]

IsCacheValid(expiration, provider, now) ==
    IF expiration[provider] = <<>> THEN FALSE
    ELSE now < expiration[provider][1]

\* get_latest_data_for_provider(provider), called at the time `clock`; stamp is
\* the datetime.now() taken after fetchone for the expiration.
GetLatestData(provider, stamp) ==
    /\ stamp \in Times
    /\ stamp >= clock
    /\ IF IsCacheValid(cache_expiration, provider, clock) THEN
           /\ stamp = clock
           /\ last_get' = [provider |-> provider, at |-> clock, read_db |-> FALSE,
                           returned |-> latest_data_cache[provider]]
           /\ UNCHANGED <<clock, latest_data_cache, cache_expiration, last_read>>
       ELSE
           LET row == FetchOne(latest_data, provider) IN
           /\ latest_data_cache' = [latest_data_cache EXCEPT ![provider] = row]
           /\ cache_expiration' = [cache_expiration EXCEPT ![provider] = <<stamp + Hour>>]
           /\ clock' = stamp
           /\ last_get' = [provider |-> provider, at |-> clock, read_db |-> TRUE,
                           returned |-> row]
           /\ last_read' = [last_read EXCEPT ![provider] =
                               [stamp |-> stamp, row |-> row]]
    /\ UNCHANGED exceptCacheVars

\* Time passes.
Tick ==
    /\ clock < MaxTime
    /\ clock' = clock + 1
    /\ UNCHANGED <<latest_data_cache, cache_expiration, last_get, last_read>>
    /\ UNCHANGED exceptCacheVars

\* A new service on a database whose latest_data has a row for one provider.
InitCache ==
    /\ IdleBut({"db", "cache"})
    /\ latest_data = [p \in Providers |-> IF p = "p1" THEN <<2024, 1>> ELSE <<>>]
    /\ update_calls = <<>>
    /\ clock = 0
    /\ latest_data_cache = [p \in Providers |-> <<>>]
    /\ cache_expiration = [p \in Providers |-> <<>>]
    /\ last_get = [provider |-> "none", at |-> 0, read_db |-> FALSE, returned |-> <<>>]
    /\ last_read = [p \in Providers |-> <<>>]

\* The service runs while sqlite_populator processes the newest file of a provider.
NextCache ==
    \/ \E provider \in Providers, stamp \in Times : GetLatestData(provider, stamp)
    \/ Tick
    \/ \E provider \in Providers : UpdateLatestData(provider, 2025, 2)

SpecCache == InitCache /\ [][NextCache]_vars

\* One call for provider p. If a call for p queried the database less than an
\* hour before (by the time it stamped), the call returns what that call
\* returned and queries nothing; otherwise it queries the database, returns
\* the row (None without one) and the hour starts again. Nothing of another
\* provider changes.
C26_Step ==
    last_get' # last_get =>
        LET call == last_get'
            p == call.provider
            prev == last_read[p]
        IN /\ IF prev # <<>> /\ call.at < prev.stamp + Hour
              THEN /\ ~call.read_db
                   /\ call.returned = prev.row
                   /\ last_read'[p] = prev
              ELSE /\ call.read_db
                   /\ call.returned = latest_data[p]
                   /\ last_read'[p].row = latest_data[p]
                   /\ last_read'[p].stamp >= call.at
           /\ \A q \in Providers \ {p} :
                  /\ last_read'[q] = last_read[q]
                  /\ latest_data_cache'[q] = latest_data_cache[q]
                  /\ cache_expiration'[q] = cache_expiration[q]

\* C26: get_latest_data_for_provider caches per provider for one hour. After
\* a call for p has queried the database at time t (row found or not), every
\* call for p before t + 1h returns the cached value without querying, even
\* if the row changed meanwhile; the first call at or after t + 1h queries
\* again and restarts the hour; the cache of one provider never affects
\* another.
C26_CachedForOneHour == [][C26_Step]_vars

\* A call answered from the cache although the provider's row has changed
\* since, while the other provider's cache was filled at another time.
C26_Witness ==
    /\ last_get.provider \in Providers
    /\ ~last_get.read_db
    /\ last_get.returned # latest_data[last_get.provider]
    /\ last_get.at > last_read[last_get.provider].stamp
    /\ \E q \in Providers \ {last_get.provider} :
           /\ last_read[q] # <<>>
           /\ last_read[q].stamp # last_read[last_get.provider].stamp

\* ------------------------------------------------ DeepSeekReActAgent.solve
\* The largest max_steps solve is called with.
MaxSteps == 3

\* A message of conversation_history, by its role and what it holds.
Message(role, kind) == [role |-> role, kind |-> kind]

\* What one chat.completions.create call can give. api: the call returned
\* ("ok") or raised ("error"). call: the first entry of tool_calls, by what
\* the loop does with it: "none" (no tool_calls), "sql" (sql_query_tool with a
\* query), "empty" (no query in the arguments), "unknown" (another name),
\* "badargs" (arguments json.loads rejects). content: it is a str
\* ("str") or None ("none"). final, action: what parse_react_response finds
\* in the content; action is "none", "query" (an action extract_sql_query
\* reads a query from) or "noquery". tool: what the executed tool call gives:
\* a result with success ("ok"), one without ("failed"), a result json.dumps
\* raises on ("raise"), or no tool call is executed ("na").
ModelResponse(api, call, content, final, action, tool) ==
    [api |-> api, call |-> call, content |-> content, final |-> final,
     action |-> action, tool |-> tool]

ToolResults == {"ok", "failed", "raise"}

ModelResponses ==
    { ModelResponse("error", "none", "none", FALSE, "none", "na") }
    \cup { ModelResponse("ok", "sql", "str", f, "none", t) :
             f \in BOOLEAN, t \in ToolResults }
    \cup { ModelResponse("ok", c, "none", FALSE, "none", "na") :
             c \in {"empty", "unknown", "badargs"} }
    \cup { ModelResponse("ok", "none", "str", TRUE, a, "na") : a \in {"none", "query"} }
    \cup { ModelResponse("ok", "none", "str", FALSE, "query", t) : t \in ToolResults }
    \cup { ModelResponse("ok", "none", "str", FALSE, a, "na") : a \in {"none", "noquery"} }
    \cup { ModelResponse("ok", "none", "none", FALSE, "none", "na") }

\* The fixed strings solve returns.
DbErrorMessage == <<"database">>
Apology == <<"apology">>

\* The final answer parsed from the n-th response of the solve.
FinalAnswer(n) == <<"final", n>>

\* Mutant: a final answer in the content is returned before tool_calls is looked at.
Outcome_FinalFirst(r) ==
    IF r.api = "error" THEN "break"
    ELSE IF r.content = "str" /\ r.final THEN "return"
    ELSE IF r.call = "sql" THEN (IF r.tool = "raise" THEN "break" ELSE "tool_call")
    ELSE IF r.call \in {"empty", "unknown"} THEN "continue"
    ELSE IF r.call = "badargs" THEN "break"
    ELSE IF r.content = "none" THEN "break"
    ELSE IF r.action = "query" THEN (IF r.tool = "raise" THEN "break" ELSE "action")
    ELSE "break"

\* What one iteration of the loop body does with the response:
\* "return" (the final answer), "break" (a break of the outer loop, or an
\* exception the except branch turns into one), "continue" (the next
\* iteration, nothing appended), "tool_call" / "action" (the tool ran and the
\* two messages were appended).
Outcome(r) ==
    IF r.api = "error" THEN "break"                     \* except Exception: break
    ELSE IF r.call = "sql" THEN
        (IF r.tool = "raise" THEN "break" ELSE "tool_call")
    ELSE IF r.call \in {"empty", "unknown"} THEN "continue"   \* break of the inner for
    ELSE IF r.call = "badargs" THEN "break"             \* json.loads raises
    ELSE IF r.content = "none" THEN "break"                \* re.search(None) raises
    ELSE IF r.final THEN "return"
    ELSE IF r.action = "query" THEN
        (IF r.tool = "raise" THEN "break" ELSE "action")
    ELSE "break"

\* The messages the iteration appends.
Appended(r) ==
    IF Outcome(r) = "tool_call"
    THEN <<Message("assistant", "tool_calls"), Message("tool", "observation")>>
    ELSE IF Outcome(r) = "action"
    THEN <<Message("assistant", "text"), Message("user", "observation")>>
    ELSE <<>>

\* solve(question, ms) is called.
Solve(ms) ==
    /\ agent_pc \in {"idle", "done"}
    /\ IF ~sql_tool_ok THEN
           /\ answer' = DbErrorMessage
           /\ agent_pc' = "done"
           /\ UNCHANGED <<conversation_history, step, max_steps, responses>>
       ELSE
           /\ conversation_history' =
                  <<Message("system", "prompt"), Message("user", "question")>>
           /\ step' = 0
           /\ max_steps' = ms
           /\ responses' = <<>>
           /\ IF ms <= 0
              THEN answer' = Apology /\ agent_pc' = "done"
              ELSE answer' = <<"none">> /\ agent_pc' = "loop"
    /\ UNCHANGED sql_tool_ok
    /\ UNCHANGED exceptAgentVars

\* One iteration of the ReAct loop: the model is called and answers r.
Iterate(r) ==
    /\ agent_pc = "loop"
    /\ step < max_steps
    /\ step' = step + 1
    /\ responses' = Append(responses, r)
    /\ conversation_history' = conversation_history \o Appended(r)
    /\ IF Outcome(r) = "return" THEN
           answer' = FinalAnswer(step + 1) /\ agent_pc' = "done"
       ELSE IF Outcome(r) = "break" \/ step + 1 = max_steps THEN
           answer' = Apology /\ agent_pc' = "done"
       ELSE UNCHANGED <<answer, agent_pc>>
    /\ UNCHANGED <<sql_tool_ok, max_steps>>
    /\ UNCHANGED exceptAgentVars

\* An agent constructed with or without the database file.
InitAgent ==
    /\ IdleBut({"agent"})
    /\ agent_pc = "idle"
    /\ sql_tool_ok \in BOOLEAN
    /\ conversation_history = <<>>
    /\ step = 0
    /\ max_steps = 0
    /\ answer = <<"none">>
    /\ responses = <<>>

NextAgent ==
    \/ \E ms \in 0..MaxSteps : Solve(ms)
    \/ \E r \in ModelResponses : Iterate(r)

SpecAgent == InitAgent /\ [][NextAgent]_vars

\* The response has no structured tool call and its content holds a final answer.
AnswersFinally(r) ==
    r.api = "ok" /\ r.call = "none" /\ r.content = "str" /\ r.final

\* The iteration executed self.tools["sql_query_tool"].
Executed(r) == r.tool \in ToolResults

\* The tool was executed and its result became an observation.
Observed(r) == r.tool \in {"ok", "failed"}

Count(P(_)) == Cardinality({k \in 1..Len(responses) : P(responses[k])})

SolveReturned == agent_pc = "done"

\* What solve returns when it returns a final answer: that of the first
\* response that answers finally, which is the last response received.
FirstFinalAnswer ==
    \A n \in 1..MaxSteps + 1 :
        answer = FinalAnswer(n) =>
            /\ n = Len(responses)
            /\ AnswersFinally(responses[n])
            /\ \A j \in 1..n - 1 : ~AnswersFinally(responses[j])

StartOfHistory == <<Message("system", "prompt"), Message("user", "question")>>

\* C27: solve makes at most max_steps model calls and returns either the
\* final answer of the first response without a structured tool call that
\* holds one, or the fixed apology; every executed tool call appends exactly
\* two messages to conversation_history, which every solve starts anew.
C27_SolveReturnsAnswerOrApology ==
    /\ Len(responses) = step /\ step <= max_steps
    /\ SolveReturned =>
           /\ answer = Apology \/ \E n \in 1..MaxSteps + 1 : answer = FinalAnswer(n)
           /\ FirstFinalAnswer
           /\ SubSeq(conversation_history, 1, 2) = StartOfHistory
           /\ Len(conversation_history) = 2 + 2 * Count(Executed)

\* C27 as the code has it: without the database tool solve returns the
\* database message at once, calls no model and leaves conversation_history
\* alone; with it, solve makes at most max_steps model calls, returns the
\* first final answer of a response without tool call or else the apology,
\* and its history is the two opening messages plus two messages for every
\* tool call whose result became an observation (none when json.dumps of the
\* result raises, which ends the solve with the apology).
C27_SolveWithDatabaseOrMessage ==
    /\ Len(responses) = step /\ step <= max_steps
    /\ (SolveReturned /\ ~sql_tool_ok) =>
           /\ answer = DbErrorMessage
           /\ step = 0
           /\ conversation_history = <<>>
    /\ (SolveReturned /\ sql_tool_ok) =>
           /\ answer = Apology \/ \E n \in 1..MaxSteps + 1 : answer = FinalAnswer(n)
           /\ FirstFinalAnswer
           /\ (step > 0 /\ AnswersFinally(responses[step])) => answer = FinalAnswer(step)
           /\ SubSeq(conversation_history, 1, 2) = StartOfHistory
           /\ Len(conversation_history) = 2 + 2 * Count(Observed)
           /\ (Count(Executed) > Count(Observed)) =>
                  answer = Apology /\ ~Observed(responses[step])

\* A solve that returned the final answer of its last response after a
\* response that held a final answer beside a tool call, which was executed.
C27_Witness ==
    /\ SolveReturned
    /\ sql_tool_ok
    /\ step = max_steps
    /\ answer = FinalAnswer(step)
    /\ \E j \in 1..step - 1 : responses[j].call = "sql" /\ responses[j].final
    /\ \E j \in 1..step - 1 : Outcome(responses[j]) = "action"
    /\ Len(conversation_history) = 6

\* ------------------------------------------------ split_text_by_coffee_beans
\* Longest text given to split_text_by_coffee_beans.
MaxTextLen == 7
\* Largest max_beans.
MaxBeans == 2

\* COFFEE_BEAN_SEPARATOR, shortened from ten '=' to two so that texts of
\* MaxTextLen characters hold several entries.
COFFEE_BEAN_SEPARATOR == <<"=", "=">>

\* COFFEE_BEAN_SEPARATOR + '\n'
SeparatorLine == COFFEE_BEAN_SEPARATOR \o <<"\n">>

\* str.startswith
PyStartsWith(s, prefix) ==
    Len(s) >= Len(prefix) /\ SubSeq(s, 1, Len(prefix)) = prefix

\* str.split(sep): the pieces between the occurrences of sep, found from the
\* left; piece is what was read since the last occurrence.
RECURSIVE PySplitFrom(_, _, _)
PySplitFrom(s, sep, piece) ==
    IF s = <<>> THEN <<piece>>
    ELSE IF PyStartsWith(s, sep)
    THEN <<piece>> \o PySplitFrom(SubSeq(s, Len(sep) + 1, Len(s)), sep, <<>>)
    ELSE PySplitFrom(Tail(s), sep, Append(piece, Head(s)))

PySplit(s, sep) == PySplitFrom(s, sep, <<>>)

\* sep.join(pieces)
RECURSIVE PyJoin(_, _)
PyJoin(sep, pieces) ==
    IF pieces = <<>> THEN <<>>
    ELSE IF Len(pieces) = 1 THEN pieces[1]
    ELSE pieces[1] \o sep \o PyJoin(sep, Tail(pieces))

\* The text with the separator line put in front unless it starts with the separator.
WithSeparator(s) ==
    IF ~PyStartsWith(s, COFFEE_BEAN_SEPARATOR) THEN SeparatorLine \o s ELSE s

\* parts: the pieces of the text, without the first when it is empty.
Parts(s) ==
    LET parts == PySplit(WithSeparator(s), SeparatorLine) IN
    IF parts # <<>> /\ parts[1] = <<>> THEN Tail(parts) ELSE parts

ChunkText(chunk_parts) == SeparatorLine \o PyJoin(SeparatorLine, chunk_parts)

\* Mutant: the slices are one part shorter than max_beans (and not empty).
ChunksFrom_Short(parts, n) ==
    [c \in 1..((Len(parts) + n - 1) \div n) |->
        ChunkText(SubSeq(parts, (c - 1) * n + 1,
                         IF n > 1 THEN (c - 1) * n + n - 1 ELSE (c - 1) * n + 1))]

\* The loop `for i in range(0, len(parts), max_beans)`: chunk c is made of
\* parts[i:i + max_beans] with i = (c - 1) * max_beans.
ChunksFrom(parts, n) ==
    [c \in 1..((Len(parts) + n - 1) \div n) |->
        ChunkText(SubSeq(parts, (c - 1) * n + 1,
                         IF c * n < Len(parts) THEN c * n ELSE Len(parts)))]

split_text_by_coffee_beans(s, n) ==
    LET parts == Parts(s) IN
    IF Len(parts) <= n THEN <<ChunkText(parts)>>
    ELSE ChunksFrom(parts, n)

SplitText ==
    /\ split_pc = "call"
    /\ chunks' = split_text_by_coffee_beans(bean_text, max_beans)
    /\ split_pc' = "returned"
    /\ UNCHANGED <<bean_text, max_beans>>
    /\ UNCHANGED exceptSplitVars

TextChars == {"=", "\n", "a"}

RECURSIVE TextsOfLen(_)
TextsOfLen(n) ==
    IF n = 0 THEN {<<>>}
    ELSE {Append(t, c) : t \in TextsOfLen(n - 1), c \in TextChars}

BeanTexts == UNION {TextsOfLen(n) : n \in 0..MaxTextLen}

InitSplit ==
    /\ IdleBut({"split"})
    /\ bean_text \in BeanTexts
    /\ max_beans \in 1..MaxBeans
    /\ chunks = <<>>
    /\ split_pc = "call"

NextSplit == SplitText

SpecSplit == InitSplit /\ [][NextSplit]_vars

\* The positions in s where the separator line occurs. An occurrence holds a
\* line break only at its end, so no two overlap.
Occurrences(s) ==
    {p \in 1..Len(s) : p + Len(SeparatorLine) - 1 <= Len(s)
                        /\ SubSeq(s, p, p + Len(SeparatorLine) - 1) = SeparatorLine}

\* The separator-delimited entries of a text that begins with the separator
\* line: what follows each occurrence up to the next one or to the end.
EntriesAfter(s) ==
    LET occ == Occurrences(s)
        Nth(k) == CHOOSE p \in occ : Cardinality({q \in occ : q < p}) = k - 1
    IN [k \in 1..Cardinality(occ) |->
           SubSeq(s, Nth(k) + Len(SeparatorLine),
                  IF k < Cardinality(occ) THEN Nth(k + 1) - 1 ELSE Len(s))]

\* The entries of the text given: it is read with a separator line in front
\* unless it starts with the separator, and what precedes the first
\* separator line of a text that starts with the separator is an entry too.
EntriesOfText(s) ==
    LET t == WithSeparator(s) IN
    IF PyStartsWith(t, SeparatorLine) THEN EntriesAfter(t)
    ELSE EntriesAfter(SeparatorLine \o t)

RECURSIVE Flatten(_)
Flatten(seqs) == IF seqs = <<>> THEN <<>> ELSE Head(seqs) \o Flatten(Tail(seqs))

CeilDiv(a, b) == (a + b - 1) \div b

\* C28: for max_beans >= 1 and a text of n entries, split_text_by_coffee_beans
\* returns ceil(n / max_beans) chunks (one chunk when n <= max_beans); every
\* chunk starts with the separator and a newline and holds at most max_beans
\* entries; the entries of the chunks, in order, are exactly the entries of
\* the text.
C28_ChunksKeepEveryEntry ==
    split_pc = "returned" =>
        LET n == Len(EntriesOfText(bean_text)) IN
        /\ Len(chunks) = IF n <= max_beans THEN 1 ELSE CeilDiv(n, max_beans)
        /\ \A c \in 1..Len(chunks) :
               /\ PyStartsWith(chunks[c], SeparatorLine)
               /\ Len(EntriesAfter(chunks[c])) <= max_beans
        /\ Flatten([c \in 1..Len(chunks) |-> EntriesAfter(chunks[c])])
               = EntriesOfText(bean_text)

\* A text of three entries, empty ones and one ending in '=' among them, cut
\* into two chunks.
C28_Witness ==
    /\ split_pc = "returned"
    /\ max_beans = 2
    /\ Len(chunks) = 2
    /\ Len(EntriesOfText(bean_text)) = 3
    /\ \E k \in 1..3 : EntriesOfText(bean_text)[k] = <<>>
    /\ \E k \in 1..3 : EntriesOfText(bean_text)[k] = <<"=">>

\* ------------------------------------------------ csv_merger.merge_json_to_csv
\* Most files the glob of merge_json_to_csv finds.
MaxFiles == 2

\* The record process_json_file builds for one entry of a flavor file.
FlavorBean(bean, bean_type) ==
    JDict(<<Pair(K_code, DictGet(bean, K_code, JStr(<<>>))),
            Pair(K_flavor_profile, DictGet(bean, K_flavor_profile, JStr(<<>>))),
            Pair(K_flavor_category, DictGet(bean, K_flavor_category, JStr(<<>>))),
            Pair(K_type, JStr(bean_type))>>)

\* process_json_file: a flavor file is a list of entries, a regular file a
\* list of pages.
process_json_file(data, is_flavor_file, bean_type) ==
    IF is_flavor_file
    THEN [j \in 1..Len(data.items) |-> FlavorBean(data.items[j], bean_type)]
    ELSE ProcessPages(data.items, bean_type)

\* Mutant: the value of the later record always replaces the merged one.
Overwrites_Always(value, merged, key) == TRUE

\* `if value or not beans_by_code[code].get(key)`
Overwrites(value, merged, key) ==
    Truthy(value) \/ ~Truthy(DictGet(merged, key, JNull))

\* `for key, value in bean.items()`: the pairs of the bean from index j on
\* are merged into the record of its code.
RECURSIVE MergeItems(_, _, _)
MergeItems(merged, bean, j) ==
    IF j > Len(bean.d) THEN merged
    ELSE LET key == bean.d[j].k
             value == bean.d[j].v
         IN MergeItems(IF Overwrites(value, merged, key)
                       THEN JDict(DictSet(merged.d, key, value))
                       ELSE merged,
                       bean, j + 1)

\* One bean of a file is merged into beans_by_code.
MergeBean(by_code, bean) ==
    LET code == DictGet(bean, K_code, JStr(<<>>)) IN
    IF ~Truthy(code) THEN by_code
    ELSE IF ~HasKey(by_code, code) THEN Append(by_code, Pair(code, bean))
    ELSE DictSet(by_code, code,
                 MergeItems(DictGet(JDict(by_code), code, JNull), bean, 1))

RECURSIVE MergeBeans(_, _)
MergeBeans(by_code, beans) ==
    IF beans = <<>> THEN by_code
    ELSE MergeBeans(MergeBean(by_code, Head(beans)), Tail(beans))

\* The columns of the CSV file.
fieldnames ==
    <<K_code, K_name, K_type, K_country, K_flavor_profile, K_flavor_category,
      K_origin, K_harvest_season, K_price_per_kg, K_price_per_pkg, K_sold_out,
      K_grade, K_altitude, K_density, K_processing_method, K_variety, K_humidity,
      K_plot, K_estate>>

\* What csv.DictWriter writes for a value: nothing for None, str() of
\* anything else.
CsvField(value) == IF value.t = "null" THEN JStr(<<>>) ELSE JStr(PyStr(value))

\* row[field] = bean.get(field, '') for every column, then writer.writerow.
CsvRow(bean) ==
    JDict([j \in 1..Len(fieldnames) |->
              Pair(fieldnames[j],
                   CsvField(DictGet(bean, fieldnames[j], JStr(<<>>))))])

\* The files of the model. A regular file holds one page with a bean that has
\* a code (maybe empty), a name, an origin (maybe empty) and a sold_out; a
\* flavor file holds one entry with a code and a flavor_category, which may
\* be null or missing.
RegularFile(code, origin, sold_out) ==
    [is_flavor_file |-> FALSE,
     bean_type |-> <<"c", "o", "m", "m", "o", "n">>,
     data |-> JList(<<JDict(<<
                 Pair(K_page, JInt(1)),
                 Pair(K_coffee_beans, JList(<<JDict(<<
                     Pair(K_code, JStr(code)), Pair(K_name, JStr(<<"A">>)),
                     Pair(K_origin, JStr(origin)),
                     Pair(K_sold_out, JBool(sold_out))>>)>>))>>)>>)]

FlavorFile(code, category) ==
    [is_flavor_file |-> TRUE,
     bean_type |-> <<"u", "n", "k", "n", "o", "w", "n">>,
     data |-> JList(<<JDict(<<Pair(K_code, JStr(code))>> \o category)>>)]

MergeCodes == {<<>>, <<"a">>, <<"b">>}

MergeFiles ==
    { RegularFile(c, o, FALSE) : c \in MergeCodes, o \in {<<>>, <<"x">>, <<"y">>} }
    \cup { FlavorFile(c, cat) : c \in MergeCodes,
             cat \in { <<>>, <<Pair(K_flavor_category, JNull)>>,
                       <<Pair(K_flavor_category, JStr(<<"n">>))>>,
                       <<Pair(K_flavor_category, JStr(<<>>))>> } }

\* One iteration of `for file_path in files`.
MergeFile(file) ==
    /\ merge_pc = "files"
    /\ files_done < MaxFiles
    /\ LET beans == process_json_file(file.data, file.is_flavor_file, file.bean_type) IN
       /\ processed' = processed \o beans
       /\ beans_by_code' = MergeBeans(beans_by_code, beans)
    /\ files_done' = files_done + 1
    /\ UNCHANGED <<csv_rows, merge_pc>>
    /\ UNCHANGED exceptMergeVars

\* After the loop: the merged records are written, if there is any.
WriteCsv ==
    /\ merge_pc = "files"
    /\ files_done >= 1
    /\ IF beans_by_code = <<>>
       THEN /\ merge_pc' = "returned"
            /\ UNCHANGED csv_rows
       ELSE /\ csv_rows' = [j \in 1..Len(beans_by_code) |-> CsvRow(beans_by_code[j].v)]
            /\ merge_pc' = "written"
    /\ UNCHANGED <<beans_by_code, processed, files_done>>
    /\ UNCHANGED exceptMergeVars

InitMerge ==
    /\ IdleBut({"merge"})
    /\ beans_by_code = <<>>
    /\ processed = <<>>
    /\ files_done = 0
    /\ csv_rows = <<>>
    /\ merge_pc = "files"

NextMerge ==
    \/ \E file \in MergeFiles : MergeFile(file)
    \/ WriteCsv

SpecMerge == InitMerge /\ [][NextMerge]_vars

\* ---------------------------------------------------------------- C29
\* The record beans_by_code holds for a code.
MergedFor(code) == DictGet(JDict(beans_by_code), code, JNull)

\* The code of a processed record.
CodeOf(bean) == DictGet(bean, K_code, JStr(<<>>))

\* The codes beans_by_code holds.
MergedCodes == {beans_by_code[j].k : j \in 1..Len(beans_by_code)}

\* The keys a processed record can have.
MergeKeys == {fieldnames[j] : j \in 1..Len(fieldnames)}

\* The processed records of a code whose value for the key is not empty.
NonEmptyFor(code, key) ==
    {j \in 1..Len(processed) :
        /\ CodeOf(processed[j]) = code
        /\ Truthy(DictGet(processed[j], key, JNull))}

\* The value the merge should give a code and a key: that of the last
\* record with a non-empty one.
LastNonEmpty(code, key) ==
    LET j == CHOOSE j \in NonEmptyFor(code, key) :
                 \A m \in NonEmptyFor(code, key) : m <= j
    IN DictGet(processed[j], key, JNull)

C29_State ==
    /\ \A code \in MergedCodes : Truthy(code)
    /\ MergedCodes = {CodeOf(processed[j]) : j \in 1..Len(processed)}
                     \ {c \in {CodeOf(processed[j]) : j \in 1..Len(processed)} : ~Truthy(c)}
    /\ \A code \in MergedCodes : \A key \in MergeKeys :
          IF NonEmptyFor(code, key) # {}
          THEN DictGet(MergedFor(code), key, JNull) = LastNonEmpty(code, key)
          ELSE ~Truthy(DictGet(MergedFor(code), key, JNull))
    /\ merge_pc = "written" =>
          /\ Len(csv_rows) = Len(beans_by_code)
          /\ \A j \in 1..Len(csv_rows) :
                /\ Truthy(DictGet(csv_rows[j], K_code, JNull))
                /\ \A key \in MergeKeys :
                      LET code == DictGet(csv_rows[j], K_code, JNull) IN
                      IF NonEmptyFor(code, key) # {}
                      THEN DictGet(csv_rows[j], key, JNull) = CsvField(LastNonEmpty(code, key))
                      ELSE DictGet(csv_rows[j], key, JNull) = JStr(<<>>)

C29_Step ==
    \A code \in MergedCodes : \A key \in MergeKeys :
        Truthy(DictGet(MergedFor(code), key, JNull))
            => Truthy(DictGet(MergedFor(code)', key, JNull))

\* C29: whatever files merge_json_to_csv processes, the merged value of a
\* code and a field is the value of the last processed record of that code
\* whose value for the field is not empty, and an empty value when there is
\* none; no step replaces a non-empty merged value by an empty one; no record
\* with an empty code is merged or written.
C29_MergeKeepsLastNonEmpty == []C29_State /\ [][C29_Step]_vars

\* Two files were merged for one code: the later one has an empty origin and
\* a non-empty flavor_category, the written row keeps the origin of the
\* first and has the category of the second; a record with an empty code
\* was processed as well.
C29_Witness ==
    /\ merge_pc = "written"
    /\ \E j \in 1..Len(csv_rows) :
          LET code == DictGet(csv_rows[j], K_code, JNull) IN
          /\ Truthy(DictGet(csv_rows[j], K_origin, JNull))
          /\ \E m \in 1..Len(processed) :
                /\ CodeOf(processed[m]) = code
                /\ m > 1
                /\ ~Truthy(DictGet(processed[m], K_origin, JNull))
                /\ \E e \in NonEmptyFor(code, K_origin) : e < m

\* ------------------------------------------------- pdf_chunk.create_chunked_pdfs
\* Most pages of the PDF, and the greatest max_pages_per_chunk.
MaxPdfPages == 3
MaxChunkPages == 2

\* Most characters of a page before the line break that ends it.
PageLen == 2

\* The two section headers. Each stands as one character of the page text:
\* only the position of the first match of a header is used.
CommonHeader == "c"
PremiumHeader == "p"

\* pdf_text: the page texts one after the other.
RECURSIVE PdfText(_)
PdfText(texts) ==
    IF texts = <<>> THEN <<>> ELSE Head(texts) \o PdfText(Tail(texts))

\* re.search(pattern, pdf_text): the start of the first match, counted from
\* 0, or -1.
MatchStart(header, pdf_text) ==
    LET hits == {j \in 1..Len(pdf_text) : pdf_text[j] = header} IN
    IF hits = {} THEN -1
    ELSE (CHOOSE j \in hits : \A m \in hits : j <= m) - 1

\* find_section_boundaries: start and end of each section, <<-1, -1>> for a
\* section that is not found.
find_section_boundaries(pdf_text) ==
    LET common_start == MatchStart(CommonHeader, pdf_text)
        premium_start == MatchStart(PremiumHeader, pdf_text)
    IN IF common_start # -1 /\ premium_start # -1
       THEN IF common_start < premium_start
            THEN [common |-> <<common_start, premium_start>>,
                  premium |-> <<premium_start, Len(pdf_text)>>]
            ELSE [common |-> <<common_start, Len(pdf_text)>>,
                  premium |-> <<premium_start, common_start>>]
       ELSE IF common_start # -1
       THEN [common |-> <<common_start, Len(pdf_text)>>, premium |-> <<-1, -1>>]
       ELSE IF premium_start # -1
       THEN [common |-> <<-1, -1>>, premium |-> <<premium_start, Len(pdf_text)>>]
       ELSE [common |-> <<-1, -1>>, premium |-> <<-1, -1>>]

\* The sections that were found, sorted by their start.
SortedSections(boundaries) ==
    LET c == [name |-> "common", bounds |-> boundaries.common]
        p == [name |-> "premium", bounds |-> boundaries.premium]
    IN IF c.bounds[1] # -1 /\ p.bounds[1] # -1
       THEN IF c.bounds[1] <= p.bounds[1] THEN <<c, p>> ELSE <<p, c>>
       ELSE IF c.bounds[1] # -1 THEN <<c>>
       ELSE IF p.bounds[1] # -1 THEN <<p>>
       ELSE <<>>

\* adjusted_boundaries: a section that is not the last ends where the next
\* one starts.
AdjustedBoundaries(sorted_sections) ==
    [j \in 1..Len(sorted_sections) |->
        [name |-> sorted_sections[j].name,
         bounds |-> IF j < Len(sorted_sections)
                    THEN <<sorted_sections[j].bounds[1], sorted_sections[j + 1].bounds[1]>>
                    ELSE sorted_sections[j].bounds]]

\* cumulative_length when the page loop reaches page_num (counted from 0).
RECURSIVE CumulativeLength(_, _)
CumulativeLength(texts, page_num) ==
    IF page_num = 0 THEN 0
    ELSE CumulativeLength(texts, page_num - 1) + Len(texts[page_num])

\* The first page with cumulative_length <= section_start < page_end, or -1.
StartPage(texts, section_start) ==
    LET hits == {n \in 0..(Len(texts) - 1) :
                    /\ CumulativeLength(texts, n) <= section_start
                    /\ section_start < CumulativeLength(texts, n + 1)}
    IN IF hits = {} THEN -1 ELSE CHOOSE n \in hits : \A m \in hits : n <= m

\* end_page: the number of pages, or, for a section that ends before the end
\* of the text, the first page with cumulative_length <= section_end <= page_end.
EndPage(texts, section_end) ==
    LET hits == {n \in 0..(Len(texts) - 1) :
                    /\ CumulativeLength(texts, n) <= section_end
                    /\ section_end <= CumulativeLength(texts, n + 1)}
    IN IF section_end < Len(PdfText(texts)) /\ hits # {}
       THEN CHOOSE n \in hits : \A m \in hits : n <= m
       ELSE Len(texts)

\* section_page_ranges, in the order of adjusted_boundaries; a section whose
\* start page is not found is left out.
SectionPageRanges(texts, adjusted) ==
    SelectSeq([j \in 1..Len(adjusted) |->
                  [name |-> adjusted[j].name,
                   start_page |-> StartPage(texts, adjusted[j].bounds[1]),
                   end_page |-> EndPage(texts, adjusted[j].bounds[2])]],
              LAMBDA r : r.start_page # -1)

\* create_section_pdf: the pages range(start_page, min(end_page, len(pages)))
\* are added to the new file.
create_section_pdf(section, chunk_num, start_page, end_page, pages) ==
    [section |-> section,
     chunk_num |-> chunk_num,
     pages |-> [j \in 1..(IF Min(end_page, pages) > start_page
                         THEN Min(end_page, pages) - start_page ELSE 0)
                   |-> start_page + j - 1]]

\* `while current_page < end_page`
RECURSIVE ChunkLoop(_, _, _, _, _, _)
ChunkLoop(section, chunk_num, current_page, end_page, max_pages, pages) ==
    IF current_page < end_page
    THEN LET chunk_end_page == Min(current_page + max_pages, end_page) IN
         <<create_section_pdf(section, chunk_num, current_page, chunk_end_page, pages)>>
         \o ChunkLoop(section, chunk_num + 1, chunk_end_page, end_page, max_pages, pages)
    ELSE <<>>

\* The files written for one section.
SectionPdfs(r, max_pages, pages) ==
    LET total_pages == r.end_page - r.start_page IN
    IF total_pages <= 0 THEN <<>>
    ELSE IF total_pages <= max_pages
    THEN <<create_section_pdf(r.name, 1, r.start_page, r.end_page, pages)>>
    ELSE ChunkLoop(r.name, 1, r.start_page, r.end_page, max_pages, pages)

RECURSIVE AllSectionPdfs(_, _, _)
AllSectionPdfs(ranges, max_pages, pages) ==
    IF ranges = <<>> THEN <<>>
    ELSE SectionPdfs(Head(ranges), max_pages, pages)
         \o AllSectionPdfs(Tail(ranges), max_pages, pages)

\* create_chunked_pdfs on the PDF whose pages have the texts page_texts.
CreateChunkedPdfs ==
    /\ chunk_pc = "start"
    /\ LET pdf_text == PdfText(page_texts) IN
       output_pdfs' =
         IF pdf_text = <<>> THEN <<>>
         ELSE AllSectionPdfs(
                SectionPageRanges(page_texts,
                    AdjustedBoundaries(SortedSections(find_section_boundaries(pdf_text)))),
                max_pages_per_chunk, Len(page_texts))
    /\ chunk_pc' = "done"
    /\ UNCHANGED <<page_texts, max_pages_per_chunk>>
    /\ UNCHANGED exceptChunkVars

\* The characters of a page: the two headers and any other character.
PageChars == {CommonHeader, PremiumHeader, "x"}

\* page.extract_text() + "\n"
PageTexts ==
    { s \o <<"\n">> : s \in UNION { [1..n -> PageChars] : n \in 0..PageLen } }

InitChunk ==
    /\ IdleBut({"chunk"})
    /\ page_texts \in UNION { [1..n -> PageTexts] : n \in 0..MaxPdfPages }
    /\ max_pages_per_chunk \in 1..MaxChunkPages
    /\ output_pdfs = <<>>
    /\ chunk_pc = "start"

NextChunk == CreateChunkedPdfs

SpecChunk == InitChunk /\ [][NextChunk]_vars

\* ---------------------------------------------------------------- C30
\* The pages that hold a header, counted from 0.
HeaderPages ==
    {n \in 0..(Len(page_texts) - 1) :
        \E j \in 1..Len(page_texts[n + 1]) :
            page_texts[n + 1][j] \in {CommonHeader, PremiumHeader}}

\* The places (file, position) where a page is written.
WrittenAt(page) ==
    {<<f, j>> \in (1..Len(output_pdfs)) \X (1..MaxPdfPages) :
        /\ j <= Len(output_pdfs[f].pages)
        /\ output_pdfs[f].pages[j] = page}

\* C30: after create_chunked_pdfs, every page from the start page of the
\* first detected section through the last page of the document is in
\* exactly one output file, and every output file holds at most
\* max_pages_per_chunk consecutive pages, wherever the headers are.
C30_NoPageLostOrDuplicated ==
    (chunk_pc = "done" /\ HeaderPages # {}) =>
        /\ \A page \in 0..(Len(page_texts) - 1) :
              (\E n \in HeaderPages : n <= page) => Cardinality(WrittenAt(page)) = 1
        /\ \A f \in 1..Len(output_pdfs) :
              /\ Len(output_pdfs[f].pages) <= max_pages_per_chunk
              /\ \A j \in 1..(Len(output_pdfs[f].pages) - 1) :
                    output_pdfs[f].pages[j + 1] = output_pdfs[f].pages[j] + 1

====
